---- MODULE Spec2Model ----
(***************************************************************************)
(* Model of the repository fleet synchronizer of the `ms` workspace CLI:   *)
(* RepoService (src/ms/services/repos.py) driven by the `repos sync`       *)
(* command (src/ms/cli/commands/repos.py).                                 *)
(*                                                                         *)
(* The pass is single-threaded: every subprocess call blocks.  The model   *)
(* walks the two loops of sync_all one catalog listing and one repository  *)
(* at a time.  The environment (gh's answers, the workspace directories,   *)
(* the exit status of git) is chosen nondeterministically.                 *)
(***************************************************************************)
EXTENDS Integers, Sequences, FiniteSets, TLC

\* ------------------------------------------------------------------ bounds

\* Total number of items the two catalog listings of one pass return.
MaxRepos == 2

\* ------------------------------------------------------- values and inputs

\* Python's None.
None == "None"

\* RepoService.ORGS, in declared order.
ORGS == <<"open-control", "petitechose-midi-studio">>

OrgIdx == 1..Len(ORGS)

\* Names of the repositories the organizations hold.
Names == {"bridge", "core", "legacy"}

\* The clone URL the hosting service reports for a repository.
UrlOf(org, name) ==
    CASE org = "open-control" /\ name = "bridge" -> "https://x/oc/bridge"
      [] org = "open-control" /\ name = "core" -> "https://x/oc/core"
      [] org = "open-control" /\ name = "legacy" -> "https://x/oc/legacy"
      [] org # "open-control" /\ name = "bridge" -> "https://x/ms/bridge"
      [] org # "open-control" /\ name = "core" -> "https://x/ms/core"
      [] OTHER -> "https://x/ms/legacy"

\* JSON null for defaultBranchRef, and a ref object carrying a branch name.
NullRef == [isDict |-> FALSE, name |-> None]

MainRef == [isDict |-> TRUE, name |-> "main"]

\* Items of the JSON array `gh repo list --json name,isArchived,defaultBranchRef,url`
\* prints for an organization.  Each organization holds a repository with
\* default branch main, one whose default branch is not reported, an archived
\* one, and the listing may carry an item without a name.
RawItems(org) ==
    {[isDict |-> TRUE, name |-> "bridge", url |-> UrlOf(org, "bridge"),
      isArchived |-> FALSE, defaultBranchRef |-> MainRef],
     [isDict |-> TRUE, name |-> "core", url |-> UrlOf(org, "core"),
      isArchived |-> FALSE, defaultBranchRef |-> NullRef],
     [isDict |-> TRUE, name |-> "legacy", url |-> UrlOf(org, "legacy"),
      isArchived |-> TRUE, defaultBranchRef |-> MainRef],
     [isDict |-> TRUE, name |-> None, url |-> "https://x/anon",
      isArchived |-> FALSE, defaultBranchRef |-> MainRef]}

\* The names already used by the well-formed items of a listing.
UsedNames(raw) == {raw[i].name : i \in 1..Len(raw)} \ {None}

\* The listings of at most n items gh can print: a repository occurs once.
RECURSIVE RawCatalogs(_, _)
RawCatalogs(org, n) ==
    IF n = 0 THEN {<<>>}
    ELSE LET P == RawCatalogs(org, n - 1)
             ext == {q \in P \X RawItems(org) :
                        /\ Len(q[1]) = n - 1
                        /\ (q[2].name = None \/ q[2].name \notin UsedNames(q[1]))}
         IN P \cup {Append(q[1], q[2]) : q \in ext}

CatalogTable == [i \in OrgIdx |-> [n \in 0..MaxRepos |-> RawCatalogs(ORGS[i], n)]]

\* ------------------------------------------------------------ data types

\* RepoRef(org, name, url, default_branch, archived)
RepoRef(org, name, url, default_branch, archived) ==
    [org |-> org, name |-> name, url |-> url,
     default_branch |-> default_branch, archived |-> archived]

\* RepoLockEntry(org, name, url, default_branch, head_sha)
RepoLockEntry(repo, head_sha) ==
    [org |-> repo.org, name |-> repo.name, url |-> repo.url,
     default_branch |-> repo.default_branch, head_sha |-> head_sha]

\* ------------------------------------------------------------- workspace

\* Mutation of _dest_dir_for_repo: the organization is not looked at.
DestDirFlat(org, repo) == <<"midi-studio", repo>>

\* _dest_dir_for_repo: the directory under the workspace root, as (dir, name).
DestDirForRepo(org, repo) ==
    IF org = "open-control" THEN <<"open-control", repo>> ELSE <<"midi-studio", repo>>

Dests == {"open-control", "midi-studio"} \X Names

NoDest == <<None, None>>

\* A destination the pass has not looked at yet.
Unobserved == [kind |-> "unobserved", status |-> None, branch |-> None, head |-> None]

\* The destination directory does not exist.
Absent == [kind |-> "absent", status |-> None, branch |-> None, head |-> None]

\* The destination exists and holds no .git entry.
NoGit == [kind |-> "dir", status |-> None, branch |-> None, head |-> None]

\* The commit the remote's default branch points at.
RemoteHead == "c2"

\* A working tree: what `git status --porcelain` does there (prints nothing,
\* prints changes, exits non-zero), the branch checked out and the commit of
\* HEAD.  An unborn repository has neither a branch name nor a HEAD commit.
GitTrees ==
    {[kind |-> "git", status |-> s, branch |-> bh[1], head |-> bh[2]] :
        s \in {"clean", "dirty", "err"},
        bh \in {<<"main", "c1">>, <<"feature-x", "c1">>, <<None, None>>}}

DestStates == {Absent, NoGit} \cup GitTrees

\* What a successful `git clone` leaves: a clean tree on the remote's default
\* branch at the remote's head.
FreshClone(repo) ==
    [kind |-> "git", status |-> "clean",
     branch |-> IF repo.default_branch = None THEN "main" ELSE repo.default_branch,
     head |-> RemoteHead]

\* ----------------------------------------------------------- git queries

\* run_process(["git", "-C", dir, "status", "--porcelain"]): Ok(stdout) or Err.
StatusPorcelain(w) ==
    IF w.status = "err" THEN [ok |-> FALSE, stdout |-> ""]
    ELSE [ok |-> TRUE, stdout |-> IF w.status = "dirty" THEN " M f\n" ELSE ""]

\* str.strip() of the outputs above.
Strip(out) == IF out = " M f\n" THEN "M f" ELSE out

\* Mutation of _is_dirty: the exit status is read instead of the output.
IsDirtyByExit(w) == ~StatusPorcelain(w).ok

\* _is_dirty: bool(stdout.strip()) on Ok, False on Err.
IsDirty(w) ==
    LET r == StatusPorcelain(w)
    IN IF r.ok THEN Strip(r.stdout) # "" ELSE FALSE

\* _current_branch: the stripped output of rev-parse --abbrev-ref HEAD, None on
\* Err or empty output.
CurrentBranch(w) == w.branch

\* _head_sha: the stripped output of rev-parse HEAD, None on Err or empty output.
HeadSha(w) == w.head

\* dest.exists()
Exists(w) == w.kind # "absent"

\* Mutation of the .git test: the directory is looked at, not its .git entry.
HasGitDirIfExists(w) == w.kind # "absent"

\* (dest / ".git").exists()
HasGitDir(w) == w.kind = "git"

\* A successful `git pull --ff-only`: the branch is advanced to the remote's head.
Pulled(w) ==
    [w EXCEPT !.head = RemoteHead, !.branch = IF @ = None THEN "main" ELSE @]

\* ------------------------------------------------------------ subprocesses

\* One run_process call: the command, its arguments, and whether it exited 0.
Call(cmd, org, url, dest, ok) ==
    [cmd |-> cmd, org |-> org, url |-> url, dest |-> dest, ok |-> ok]

\* ["gh", "auth", "status"]
GhAuthCall(ok) == Call("gh auth status", None, None, NoDest, ok)

\* ["gh", "repo", "list", org, "--limit", ..., "--json", ...]
GhListCall(org, ok) == Call("gh repo list", org, None, NoDest, ok)

\* Mutation of the clone call: the URL is rebuilt from the organization and
\* the name instead of being taken from the catalog.
CloneCallBuiltUrl(repo, dest, ok) ==
    Call("git clone", None, "https://github.com/org/name", dest, ok)

\* ["git", "clone", repo.url, str(dest)]
CloneCall(repo, dest, ok) == Call("git clone", None, repo.url, dest, ok)

\* ["git", "-C", str(dest), "fetch", "--prune"]
FetchCall(dest, ok) == Call("git fetch --prune", None, None, dest, ok)

\* ["git", "-C", str(dest), "pull", "--ff-only"]
PullCall(dest, ok) == Call("git pull --ff-only", None, None, dest, ok)

Mutating == {"git clone", "git fetch --prune", "git pull --ff-only"}

\* ---------------------------------------------------------- catalog parsing

IsNonEmptyStr(x) == x # None /\ x # ""

\* The default branch read from an item's defaultBranchRef.
DefaultBranchOf(item) ==
    IF item.defaultBranchRef.isDict /\ IsNonEmptyStr(item.defaultBranchRef.name)
    THEN item.defaultBranchRef.name
    ELSE None

\* Mutation of the two `continue` tests: the url is not looked at.
WellFormedNameOnly(item) == IsNonEmptyStr(item.name)

\* Items without a non-empty string name and url are skipped.
WellFormed(item) == IsNonEmptyStr(item.name) /\ IsNonEmptyStr(item.url)

\* The loop of _list_org_repos over the JSON array, in array order.
RECURSIVE ParseRepos(_, _)
ParseRepos(org, raw) ==
    IF raw = <<>> THEN <<>>
    ELSE LET item == Head(raw)
             ref == RepoRef(org, item.name, item.url, DefaultBranchOf(item),
                            item.isArchived)
         IN (IF WellFormed(item) THEN <<ref>> ELSE <<>>) \o ParseRepos(org, Tail(raw))

\* What `gh repo list` can do: exit non-zero, print something that is not
\* JSON, print JSON that is not an array, print an array.
GhListOutcomes == {"exit_nonzero", "invalid_json", "not_array", "array"}

\* _list_org_repos returns None on the first three.
ListFails(outcome) == outcome # "array"

\* What a call of _list_org_repos ends with: None, the list of RepoRefs, or
\* the AttributeError of `item_d.get` on an array element that is no object,
\* which nothing catches.
ListOrgReposReturn(outcome, org, raw) ==
    IF ListFails(outcome) THEN [kind |-> "None", repos |-> <<>>]
    ELSE IF \E i \in 1..Len(raw) : ~raw[i].isDict
    THEN [kind |-> "AttributeError", repos |-> <<>>]
    ELSE [kind |-> "list", repos |-> ParseRepos(org, raw)]

\* ------------------------------------------------------------- _sync_repo

\* Mutation of the branch guard: the comparison is inverted.
WrongBranchSame(repo, current_branch) ==
    /\ repo.default_branch # None
    /\ current_branch # None
    /\ current_branch = repo.default_branch

\* Mutation of the branch guard: a branch that is not known differs.
WrongBranchIfUnknown(repo, current_branch) == current_branch # repo.default_branch

\* The branch guard of _sync_repo.
WrongBranch(repo, current_branch) ==
    /\ repo.default_branch # None
    /\ current_branch # None
    /\ current_branch # repo.default_branch

\* Mutation of an entry's head: HEAD is read in a dry run too.
EntryHeadAlways(w, dry) == HeadSha(w)

\* head_sha of an entry: self._head_sha(dest) if not dry_run else None
EntryHead(w, dry) == IF ~dry THEN HeadSha(w) ELSE None

\* The clone step runs when the destination is absent and the pass is not dry.
Clones(w, dry) == ~Exists(w) /\ ~dry

\* Mutation of the update step: a failed fetch returns before the pull.
UpdateCallsStopAtFetch(dest, fetchOk, pullOk) ==
    IF fetchOk THEN <<FetchCall(dest, fetchOk), PullCall(dest, pullOk)>>
    ELSE <<FetchCall(dest, fetchOk)>>

\* The update step: fetch --prune, then pull --ff-only whatever the fetch did.
UpdateCalls(dest, fetchOk, pullOk) ==
    <<FetchCall(dest, fetchOk), PullCall(dest, pullOk)>>

\* Mutation of the final entry: HEAD is read before the update step.
TreeAtReturnBefore(before, after) == before

\* The tree _head_sha reads for the final entry: the one the update step left.
TreeAtReturn(before, after) == after

\* _sync_repo(repo, dest, dry_run) started with the destination in state w0,
\* given the exit status of the clone, fetch and pull it may run.  Yields the
\* entry returned (has_entry FALSE for None), the subprocess calls made, the
\* destination's state afterwards, and which steps ran.
SyncRepo(repo, dest, w0, dry, cloneOk, fetchOk, pullOk) ==
    LET cloned == Clones(w0, dry)
        c1 == IF cloned THEN <<CloneCall(repo, dest, cloneOk)>> ELSE <<>>
        w1 == IF cloned /\ cloneOk THEN FreshClone(repo) ELSE w0
        skip(head) == [has_entry |-> TRUE, entry |-> RepoLockEntry(repo, head),
                       calls |-> c1, w |-> w1, cloned |-> cloned, updated |-> FALSE]
    IN IF cloned /\ ~cloneOk
       THEN [has_entry |-> FALSE, entry |-> RepoLockEntry(repo, None),
             calls |-> c1, w |-> w1, cloned |-> cloned, updated |-> FALSE]
       ELSE IF ~HasGitDir(w1) THEN skip(None)
       ELSE IF IsDirty(w1) THEN skip(EntryHead(w1, dry))
       ELSE IF WrongBranch(repo, CurrentBranch(w1)) THEN skip(EntryHead(w1, dry))
       ELSE LET c2 == IF ~dry THEN UpdateCalls(dest, fetchOk, pullOk) ELSE <<>>
                w2 == IF ~dry /\ pullOk THEN Pulled(w1) ELSE w1
            IN [has_entry |-> TRUE,
                entry |-> RepoLockEntry(repo, EntryHead(TreeAtReturn(w1, w2), dry)),
                calls |-> c1 \o c2, w |-> w2, cloned |-> cloned, updated |-> ~dry]

\* ------------------------------------------------------------- lockfile

\* The JSON array _write_lock dumps: one object of five keys per entry.
LockPayload(entries) ==
    [i \in 1..Len(entries) |->
        [org |-> entries[i].org, name |-> entries[i].name, url |-> entries[i].url,
         default_branch |-> entries[i].default_branch,
         head_sha |-> entries[i].head_sha]]

\* Mutation of _write_lock: the payload is added to what the file holds.
WriteLockMerging(old, entries) == old \o LockPayload(entries)

\* _write_lock: write_text replaces the content of the file by the payload.
WriteLock(old, entries) == LockPayload(entries)

\* repos.lock.json as an earlier pass left it.
PreviousLock ==
    <<[org |-> "open-control", name |-> "legacy", url |-> "https://x/oc/legacy",
       default_branch |-> "main", head_sha |-> "c0"]>>

\* ---------------------------------------------------------- state machine

VARIABLES
    pc,          \* where the `repos sync` command is
    dry_run,     \* the --dry-run option of the pass
    lock,        \* sync_all's list of entries
    has_errors,  \* sync_all's flag
    org_i,       \* index in ORGS of the organization being processed
    repo_i,      \* index in its repos of the repository being processed
    result,      \* what sync_all returned: "ok" or the kind of its RepoError
    exit_code,   \* the exit code of the command
    lockfile,    \* content of repos.lock.json
    lock_writes, \* number of times _write_lock ran
    ws,          \* state of each destination directory of the workspace
    listing,     \* what `gh repo list` answered for each organization
    gh_state,    \* what the pass found of gh: missing, logged out, logged in
    found,       \* state of each destination when _sync_repo was entered
    synced,      \* the RepoRefs handed to _sync_repo, in call order
    calls,       \* the subprocess calls made, in order
    rerun        \* what a second `repos sync` right after the first one did

\* _list_org_repos called on its own.
VARIABLES
    gh_out,      \* what `gh repo list` did: how it ended and the array it printed
    listed       \* what _list_org_repos returned

\* The `status` command.
VARIABLES
    st_pc,       \* where the command is
    st_fetch,    \* its --fetch option
    repo_list,   \* what _collect_repos returned
    fetched,     \* the paths Repository(path).fetch() was called on, in order
    answers,     \* what Repository(path).status() returned, call after call
    statuses,    \* the list of RepoStatus
    changed,     \* the repositories of the PENDING panel
    clean        \* the repositories of the OK panel

\* SystemInstaller: plan_installation, then apply.
VARIABLES
    ins_pc,      \* idle, planned, applied
    results,     \* the CheckResults handed to plan_installation
    plan,        \* the InstallPlan it returned
    apply_args,  \* dry_run and assume_yes of apply, and the confirm callback
    runs,        \* the argv handed to the runner, in order
    success,     \* the success flag of apply, which it returns
    asked,       \* apply called the confirm callback
    returns      \* the returncode of each command the runner ran, in order

\* HardwareService: build, upload and monitor called on one service.
VARIABLES
    hw_log,      \* the calls made on the service and what each returned, in order
    spawned      \* the subprocess.run calls made, in order

\* The parsing of `git status --porcelain=v1 -b` by the `changes` command.
VARIABLES
    status_lines, \* the lines git printed, each with what it stands for
    stdout,       \* proc.stdout: the characters git printed
    parsed        \* what the command read out of it

\* One Bridge instance and the oc-bridge processes it spawned.
VARIABLES
    procs,       \* the processes Popen started, in order, with their state
    process,     \* self._process: the index in procs of the Popen it holds, 0 for None
    br_last      \* the last method called on the instance and what it returned

syncVars == <<pc, dry_run, lock, has_errors, org_i, repo_i, result, exit_code,
              lockfile, lock_writes, ws, listing, gh_state, found, synced, calls,
              rerun>>

listVars == <<gh_out, listed>>

statusVars == <<st_pc, st_fetch, repo_list, fetched, answers, statuses, changed, clean>>

installVars == <<ins_pc, results, plan, apply_args, runs, success, asked, returns>>

hwVars == <<hw_log, spawned>>

porcelainVars == <<status_lines, stdout, parsed>>

\* The variables of the operations modelled after the installer.
bridgeVars == <<procs, process, br_last>>

further == <<hwVars, porcelainVars, bridgeVars>>

\* The variables of the other operations, which `repos sync` leaves alone.
aside == <<listVars, statusVars, installVars, further>>

vars == <<syncVars, aside>>

\* _list_org_repos has not been called.
NotListed == [kind |-> "pending", repos |-> <<>>]

ListIdle ==
    /\ gh_out = [outcome |-> None, org |-> None, raw |-> <<>>]
    /\ listed = NotListed

\* The status command has not been invoked.
StatusIdle ==
    /\ st_pc = "idle"
    /\ st_fetch = FALSE
    /\ repo_list = <<>>
    /\ fetched = <<>>
    /\ answers = <<>>
    /\ statuses = <<>>
    /\ changed = <<>>
    /\ clean = <<>>

\* An InstallPlan without steps or manual steps.
EmptyPlan == [steps |-> <<>>, manual |-> <<>>]

\* apply has not been called.
NoArgs == [dry_run |-> FALSE, assume_yes |-> FALSE, confirm |-> None]

\* The installer has been handed nothing.
InstallIdle ==
    /\ ins_pc = "idle"
    /\ results = <<>>
    /\ plan = EmptyPlan
    /\ apply_args = NoArgs
    /\ runs = <<>>
    /\ success = TRUE
    /\ asked = FALSE
    /\ returns = <<>>

\* No call has been made on the HardwareService.
HardwareIdle ==
    /\ hw_log = <<>>
    /\ spawned = <<>>

\* Nothing has been parsed.
NotParsed == [done |-> FALSE]

\* git status has not been run by the `changes` command.
PorcelainIdle ==
    /\ status_lines = <<>>
    /\ stdout = <<>>
    /\ parsed = NotParsed

\* No method of the Bridge has been called.
NoCall == [op |-> None, ret |-> None]

\* Bridge(workspace): no process.
BridgeIdle ==
    /\ procs = <<>>
    /\ process = 0
    /\ br_last = NoCall

FurtherIdle == HardwareIdle /\ PorcelainIdle /\ BridgeIdle

AsideIdle == ListIdle /\ StatusIdle /\ InstallIdle /\ FurtherIdle

Pending == [state |-> "pending", raw |-> <<>>]

\* No second pass has run.
NoRerun == [ran |-> FALSE, git |-> None, before |-> <<>>, calls |-> <<>>, result |-> None]

SyncInit ==
    /\ pc = "idle"
    /\ dry_run = FALSE
    /\ lock = <<>>
    /\ has_errors = FALSE
    /\ org_i = 1
    /\ repo_i = 1
    /\ result = None
    /\ exit_code = None
    /\ lockfile = PreviousLock
    /\ lock_writes = 0
    /\ ws = [d \in Dests |-> Unobserved]
    /\ listing = [i \in OrgIdx |-> Pending]
    /\ gh_state = None
    /\ found = [d \in Dests |-> Unobserved]
    /\ synced = <<>>
    /\ calls = <<>>
    /\ rerun = NoRerun

Init == SyncInit /\ AsideIdle

\* The repos list of the organization being processed.
Repos(i) == ParseRepos(ORGS[i], listing[i].raw)

\* Number of catalog items listed so far in the pass.
RECURSIVE ListedUpTo(_)
ListedUpTo(i) == IF i = 0 THEN 0 ELSE Len(listing[i].raw) + ListedUpTo(i - 1)

\* `ms repos sync [--dry-run]` is invoked.
Sync ==
    /\ pc = "idle"
    /\ \E d \in BOOLEAN : dry_run' = d
    /\ pc' = "auth"
    /\ UNCHANGED <<aside, rerun, lock, has_errors, org_i, repo_i, result, exit_code, lockfile,
                   lock_writes, ws, listing, gh_state, found, synced, calls>>

\* Mutation of the command's match: the Err arm does not raise.
ExitCodeZero(res) == "0"

\* The command's match on the result: Ok falls through (exit 0), Err raises
\* typer.Exit(code=int(ErrorCode.ENV_ERROR)).
ExitCodeFor(res) == IF res = "ok" THEN "0" ELSE "ENV_ERROR"

\* Mutation of _check_gh_auth: the result of `gh auth status` is ignored.
AuthResultNoLogin(gh) == IF gh = "missing" THEN "gh_missing" ELSE "ok"

\* _check_gh_auth: "ok", or the kind of the RepoError it returns.
AuthResult(gh) ==
    CASE gh = "missing" -> "gh_missing"
      [] gh = "logged_out" -> "not_authenticated"
      [] OTHER -> "ok"

\* The head of sync_all: gh is absent from PATH, or `gh auth status` fails
\* and the error is returned, on which the command exits; or the pass starts
\* with an empty lock list.
CheckGhAuth ==
    /\ pc = "auth"
    /\ \E gh \in {"missing", "logged_out", "logged_in"} :
          /\ gh_state' = gh
          /\ calls' = IF gh = "missing" THEN calls
                      ELSE Append(calls, GhAuthCall(gh = "logged_in"))
          /\ IF AuthResult(gh) # "ok"
             THEN /\ result' = AuthResult(gh)
                  /\ exit_code' = ExitCodeFor(AuthResult(gh))
                  /\ pc' = "exited"
             ELSE UNCHANGED <<result, exit_code>> /\ pc' = "list"
    /\ lock' = <<>>
    /\ has_errors' = FALSE
    /\ UNCHANGED <<aside, rerun, dry_run, org_i, repo_i, lockfile, lock_writes, ws,
                   listing, found, synced>>

\* The tail of sync_all, past the loops: _write_lock of the entries of the
\* pass unless dry_run, then the result, on which the command exits.
Finish ==
    /\ IF ~dry_run
       THEN lockfile' = WriteLock(lockfile, lock') /\ lock_writes' = lock_writes + 1
       ELSE UNCHANGED <<lockfile, lock_writes>>
    /\ result' = IF has_errors' THEN "sync_failed" ELSE "ok"
    /\ exit_code' = ExitCodeFor(IF has_errors' THEN "sync_failed" ELSE "ok")
    /\ pc' = "exited"

\* The pass goes on: nothing is written or returned yet.
GoOn == UNCHANGED <<lockfile, lock_writes, result, exit_code>>

\* The for loop over ORGS moves on: to the next organization, or past the loop.
NextOrg ==
    /\ repo_i' = 1
    /\ IF org_i < Len(ORGS)
       THEN org_i' = org_i + 1 /\ pc' = "list" /\ GoOn
       ELSE org_i' = org_i /\ Finish

\* The for loop over repos moves on.
NextRepo ==
    IF repo_i < Len(Repos(org_i))
    THEN repo_i' = repo_i + 1 /\ org_i' = org_i /\ pc' = "repo" /\ GoOn
    ELSE NextOrg

\* Mutation of the `continue` after a failed listing: `break`.
AfterFailedListBreak == repo_i' = 1 /\ org_i' = org_i /\ Finish

\* `continue` after a listing that returned None.
AfterFailedList == NextOrg

\* Mutation of the `continue` after a failed _sync_repo: `break`.
AfterFailedSyncBreak == NextOrg

\* `continue` after a _sync_repo that returned None.
AfterFailedSync == NextRepo

\* Mutation of the archived test: never taken.
IsArchivedNever(repo) == FALSE

\* `if repo.archived`
IsArchived(repo) == repo.archived

\* Mutation of the append: the entry of a failed _sync_repo is appended too.
AppendEntryAlways(entries, r) == Append(entries, r.entry)

\* Mutation of the append: the entry is inserted at the head of the list.
AppendEntryFirst(entries, r) == IF r.has_entry THEN <<r.entry>> \o entries ELSE entries

\* `lock.append(entry)` unless the entry is None.
AppendEntry(entries, r) == IF r.has_entry THEN Append(entries, r.entry) ELSE entries

\* _list_org_repos(org) and the `repos is None` branch of sync_all.
ListOrgRepos ==
    /\ pc = "list"
    /\ UNCHANGED <<aside, rerun, dry_run, lock, ws, gh_state, found, synced>>
    /\ \E outcome \in GhListOutcomes :
       \E raw \in CatalogTable[org_i][MaxRepos - ListedUpTo(org_i - 1)] :
          /\ ListFails(outcome) => raw = <<>>
          /\ calls' = Append(calls, GhListCall(ORGS[org_i], outcome # "exit_nonzero"))
          /\ listing' = [listing EXCEPT ![org_i] = [state |-> outcome, raw |-> raw]]
          /\ has_errors' = (has_errors \/ ListFails(outcome))
          /\ IF ListFails(outcome) THEN AfterFailedList
             ELSE IF ParseRepos(ORGS[org_i], raw) = <<>> THEN NextOrg
             ELSE repo_i' = 1 /\ org_i' = org_i /\ pc' = "repo" /\ GoOn

\* `if repo.archived: continue`
SkipArchived ==
    /\ pc = "repo"
    /\ IsArchived(Repos(org_i)[repo_i])
    /\ UNCHANGED <<aside, rerun, dry_run, lock, has_errors, ws, listing, gh_state,
                   found, synced, calls>>
    /\ NextRepo

\* One iteration of the inner loop for a repository that is not archived:
\* _dest_dir_for_repo, _sync_repo, and the bookkeeping of its result.
SyncOne ==
    /\ pc = "repo"
    /\ ~IsArchived(Repos(org_i)[repo_i])
    /\ LET repo == Repos(org_i)[repo_i]
           dest == DestDirForRepo(ORGS[org_i], repo.name)
       IN \E w0 \in DestStates, cloneOk, fetchOk, pullOk \in BOOLEAN :
             \E r \in {SyncRepo(repo, dest, w0, dry_run, cloneOk, fetchOk, pullOk)} :
                /\ ws[dest] # Unobserved => w0 = ws[dest]
                /\ ~r.cloned => cloneOk
                /\ ~r.updated => fetchOk /\ pullOk
                /\ found' = [found EXCEPT ![dest] = w0]
                /\ ws' = [ws EXCEPT ![dest] = r.w]
                /\ synced' = Append(synced, repo)
                /\ calls' = calls \o r.calls
                /\ has_errors' = (has_errors \/ ~r.has_entry)
                /\ lock' = AppendEntry(lock, r)
                /\ IF r.has_entry THEN NextRepo ELSE AfterFailedSync
    /\ UNCHANGED <<aside, rerun, dry_run, listing, gh_state>>

Next == Sync \/ CheckGhAuth \/ ListOrgRepos \/ SkipArchived \/ SyncOne

Spec == Init /\ [][Next]_vars

\* ------------------------------------------------------------ properties

\* The destination of a RepoRef.
DestOf(repo) == DestDirForRepo(repo.org, repo.name)

\* Indices of the calls of the given commands on a destination.
CallsOn(d, cmds) == {i \in 1..Len(calls) : calls[i].dest = d /\ calls[i].cmd \in cmds}

\* Indices of the lock entries of a repository.
EntriesOf(org, name) == {i \in 1..Len(lock) : lock[i].org = org /\ lock[i].name = name}

\* Indices of the _sync_repo calls for a repository.
SyncsOf(org, name) ==
    {k \in 1..Len(synced) : synced[k].org = org /\ synced[k].name = name}

\* sync_all has returned.
Ended == pc = "exited"

\* `git status --porcelain` prints something in this tree.
DirtyTree(w) == w.kind = "git" /\ w.status = "dirty"

\* The tree is on a branch other than the repository's declared default.
OtherBranch(repo, w) ==
    /\ w.kind = "git"
    /\ repo.default_branch # None
    /\ w.branch # None
    /\ w.branch # repo.default_branch

\* `git clone` failed for the destination.
CloneFailed(d) == \E i \in CallsOn(d, {"git clone"}) : ~calls[i].ok

\* The listing of an organization failed.
ListFailed(i) == listing[i].state \in GhListOutcomes \ {"array"}

\* The repositories an organization's listing names, as (index, item).
Listed(i) == {j \in 1..Len(listing[i].raw) : WellFormed(listing[i].raw[j])}

\* The URL the catalog returned for a repository handed to _sync_repo.
CatalogUrl(repo) ==
    LET i == CHOOSE i \in OrgIdx : ORGS[i] = repo.org
        j == CHOOSE j \in Listed(i) : listing[i].raw[j].name = repo.name
    IN listing[i].raw[j].url

\* C1: a repository found with a dirty working tree is neither fetched nor
\* pulled, and its lock entry carries its current HEAD (None in a dry run).
C1_DirtyNeverUpdated ==
    \A k \in 1..Len(synced) :
        LET repo == synced[k]
            d == DestOf(repo)
        IN DirtyTree(found[d]) =>
              /\ CallsOn(d, {"git fetch --prune", "git pull --ff-only"}) = {}
              /\ Cardinality(EntriesOf(repo.org, repo.name)) = 1
              /\ \A i \in EntriesOf(repo.org, repo.name) :
                    lock[i].head_sha = IF dry_run THEN None ELSE ws[d].head

C1_Witness ==
    /\ pc = "exited"
    /\ ~dry_run
    /\ \E k \in 1..Len(synced) :
          /\ DirtyTree(found[DestOf(synced[k])])
          /\ \E i \in EntriesOf(synced[k].org, synced[k].name) : lock[i].head_sha = "c1"

\* C2 as stated: a repository found on a branch other than its declared
\* default gets no mutating git call and a lock entry carrying its current HEAD.
C2_OtherBranchHead ==
    \A k \in 1..Len(synced) :
        LET repo == synced[k]
            d == DestOf(repo)
        IN OtherBranch(repo, found[d]) =>
              /\ CallsOn(d, Mutating) = {}
              /\ Cardinality(EntriesOf(repo.org, repo.name)) = 1
              /\ \A i \in EntriesOf(repo.org, repo.name) : lock[i].head_sha = ws[d].head

\* C2 amended: a repository found on a branch other than its declared default
\* gets no mutating git call and a lock entry carrying its current HEAD, or
\* None when the pass is a dry run.
C2_OtherBranchNeverMutated ==
    \A k \in 1..Len(synced) :
        LET repo == synced[k]
            d == DestOf(repo)
        IN OtherBranch(repo, found[d]) =>
              /\ CallsOn(d, Mutating) = {}
              /\ Cardinality(EntriesOf(repo.org, repo.name)) = 1
              /\ \A i \in EntriesOf(repo.org, repo.name) :
                    lock[i].head_sha = IF dry_run THEN None ELSE ws[d].head

C2_Witness ==
    /\ pc = "exited"
    /\ \E k \in 1..Len(synced) :
          LET w == found[DestOf(synced[k])]
          IN /\ OtherBranch(synced[k], w)
             /\ w.status = "clean"
             /\ ~dry_run
             /\ \E i \in EntriesOf(synced[k].org, synced[k].name) : lock[i].head_sha = "c1"

\* C3: a dry-run pass invokes no clone, fetch or pull, leaves the lockfile as
\* it was, and every entry it produces has head_sha None.
C3_DryRunFrame ==
    dry_run =>
        /\ \A i \in 1..Len(calls) : calls[i].cmd \notin Mutating
        /\ lockfile = PreviousLock
        /\ lock_writes = 0
        /\ \A i \in 1..Len(lock) : lock[i].head_sha = None

C3_Witness ==
    /\ pc = "exited"
    /\ dry_run
    /\ Len(lock) = 2
    /\ \E d \in Dests : found[d] = Absent
    /\ \E d \in Dests : found[d].kind = "git" /\ found[d].status = "clean"
                        /\ found[d].branch = "main"

\* C4: a catalog repository with archived = true gets no lock entry and no
\* clone, fetch or pull.
C4_ArchivedUntouched ==
    \A i \in OrgIdx : \A j \in Listed(i) :
        LET item == listing[i].raw[j]
        IN item.isArchived =>
              /\ EntriesOf(ORGS[i], item.name) = {}
              /\ CallsOn(DestDirForRepo(ORGS[i], item.name), Mutating) = {}

C4_Witness ==
    /\ pc = "exited"
    /\ ~dry_run
    /\ Len(lock) = 1
    /\ \E i \in OrgIdx :
          /\ Len(listing[i].raw) = 2
          /\ listing[i].raw[1].isArchived
          /\ WellFormed(listing[i].raw[2])

\* C5 as stated: every repository whose destination does not exist gets
\* exactly one `git clone <url> <dest>`, with the URL the catalog returned.
C5_OneCloneEveryPass ==
    \A k \in 1..Len(synced) :
        LET repo == synced[k]
            d == DestOf(repo)
        IN found[d].kind = "absent" =>
              /\ Cardinality(CallsOn(d, {"git clone"})) = 1
              /\ \A i \in CallsOn(d, {"git clone"}) : calls[i].url = CatalogUrl(repo)

\* C5 amended: in a pass that is not a dry run, every repository handed to
\* _sync_repo whose destination does not exist gets exactly one
\* `git clone <url> <dest>`, with the URL the catalog returned; in a dry run
\* it gets none.
C5_OneCloneWithCatalogUrl ==
    \A k \in 1..Len(synced) :
        LET repo == synced[k]
            d == DestOf(repo)
        IN found[d].kind = "absent" =>
              /\ Cardinality(CallsOn(d, {"git clone"})) = IF dry_run THEN 0 ELSE 1
              /\ \A i \in CallsOn(d, {"git clone"}) : calls[i].url = CatalogUrl(repo)

C5_Witness ==
    /\ pc = "exited"
    /\ ~dry_run
    /\ \E k \in 1..Len(synced) :
          LET d == DestOf(synced[k])
          IN /\ found[d] = Absent
             /\ ws[d].kind = "git"
             /\ \E i \in CallsOn(d, {"git clone"}) :
                   calls[i].ok /\ calls[i].url = UrlOf(synced[k].org, synced[k].name)

\* C6 as stated: after a pass the lock list holds exactly one entry for each
\* repository that was considered, and no repository twice.
C6_OneEntryPerConsidered ==
    Ended /\ gh_state = "logged_in" =>
        \A k \in 1..Len(synced) :
            Cardinality(EntriesOf(synced[k].org, synced[k].name)) = 1

\* C6 amended: the lock list holds exactly one entry for each repository
\* handed to _sync_repo whose clone did not fail, none for a repository whose
\* clone failed, no entry for any other repository, and no repository twice.
C6_OneEntryUnlessCloneFailed ==
    /\ \A k \in 1..Len(synced) :
          Cardinality(EntriesOf(synced[k].org, synced[k].name))
              = IF CloneFailed(DestOf(synced[k])) THEN 0 ELSE 1
    /\ \A i \in 1..Len(lock) : SyncsOf(lock[i].org, lock[i].name) # {}

C6_Witness ==
    /\ pc = "exited"
    /\ Len(synced) = 2
    /\ Len(lock) = 1
    /\ CloneFailed(DestOf(synced[2]))
    /\ found[DestOf(synced[1])].kind = "dir"

\* A clone failed or a catalog listing failed in the pass.
HardFailure ==
    \/ \E i \in 1..Len(calls) : calls[i].cmd = "git clone" /\ ~calls[i].ok
    \/ \E i \in OrgIdx : ListFailed(i)

\* The command exits 0 on Ok and with the environment-error code on Err.
ExitMatchesResult ==
    pc = "exited" => (exit_code = "0" <=> result = "ok") /\ exit_code \in {"0", "ENV_ERROR"}

\* C7 as stated: sync_all returns Ok exactly when no clone and no catalog
\* listing failed, and the command exits 0 on Ok, with ENV_ERROR on Err.
C7_OkIffNoHardFailure ==
    Ended => (result = "ok" <=> ~HardFailure) /\ ExitMatchesResult

\* C7 amended: sync_all returns Ok exactly when the gh check passed and no
\* clone and no catalog listing failed (dirty and wrong-branch skips and
\* fetch/pull failures never make it Err), and the command exits 0 on Ok, with
\* ENV_ERROR on Err.
C7_OkIffAuthAndNoHardFailure ==
    Ended => (result = "ok" <=> (gh_state = "logged_in" /\ ~HardFailure))
             /\ ExitMatchesResult

C7_Witness ==
    /\ pc = "exited"
    /\ result = "ok"
    /\ exit_code = "0"
    /\ \E d \in Dests : DirtyTree(found[d])
    /\ \E i \in 1..Len(calls) : calls[i].cmd = "git pull --ff-only" /\ ~calls[i].ok
    /\ \E i \in 1..Len(calls) : calls[i].cmd = "git fetch --prune" /\ ~calls[i].ok

\* C8: when gh is missing or `gh auth status` fails, sync_all returns that
\* error at once: no catalog listing, no clone, fetch or pull, no repository
\* looked at, no lockfile write.
C8_AuthFailureStopsPass ==
    gh_state \in {"missing", "logged_out"} =>
        /\ Ended
        /\ result = IF gh_state = "missing" THEN "gh_missing" ELSE "not_authenticated"
        /\ \A i \in 1..Len(calls) : calls[i].cmd \notin Mutating \cup {"gh repo list"}
        /\ synced = <<>> /\ lock = <<>>
        /\ \A i \in OrgIdx : listing[i] = Pending
        /\ lock_writes = 0 /\ lockfile = PreviousLock

C8_Witness ==
    /\ pc = "exited"
    /\ gh_state = "logged_out"
    /\ result = "not_authenticated"
    /\ exit_code = "ENV_ERROR"
    /\ calls = <<GhAuthCall(FALSE)>>

\* Every organization was listed, and every repository of every successful
\* listing went through the loop: handed to _sync_repo once unless archived.
AllProcessed ==
    /\ \A i \in OrgIdx : listing[i] # Pending
    /\ \A i \in OrgIdx : \A j \in Listed(i) :
          LET item == listing[i].raw[j]
          IN ~item.isArchived => Cardinality(SyncsOf(ORGS[i], item.name)) = 1

\* C9 as stated: when one organization's listing fails, the pass still syncs
\* and records every repository of the succeeding organization, and fails.
C9_AllOfOtherOrgRecorded ==
    Ended /\ gh_state = "logged_in" /\ (\E i \in OrgIdx : ListFailed(i)) =>
        /\ result = "sync_failed"
        /\ \A i \in OrgIdx : \A j \in Listed(i) :
              Cardinality(EntriesOf(ORGS[i], listing[i].raw[j].name)) = 1

\* C9 amended: when one organization's listing fails, whichever it is, the
\* other organization is still listed, each of its repositories that is not
\* archived is handed to _sync_repo and recorded unless its clone fails, and
\* the pass fails.
C9_OtherOrgStillSynced ==
    Ended /\ gh_state = "logged_in" /\ (\E i \in OrgIdx : ListFailed(i)) =>
        /\ result = "sync_failed"
        /\ AllProcessed
        /\ \A i \in OrgIdx : \A j \in Listed(i) :
              LET item == listing[i].raw[j]
              IN ~item.isArchived =>
                    Cardinality(EntriesOf(ORGS[i], item.name))
                        = IF CloneFailed(DestDirForRepo(ORGS[i], item.name)) THEN 0 ELSE 1

C9_Witness ==
    /\ pc = "exited"
    /\ ListFailed(1)
    /\ listing[2].state = "array"
    /\ Len(synced) = 2
    /\ Len(lock) = 2
    /\ \A k \in 1..2 : lock[k].org = ORGS[2]
    /\ result = "sync_failed"

\* C10: a repository whose clone fails gets no lock entry, the pass fails, and
\* the repositories after it, in its catalog and in later organizations, are
\* still processed.
C10_CloneFailureSkipsOnlyThatRepo ==
    /\ \A k \in 1..Len(synced) :
          CloneFailed(DestOf(synced[k])) => EntriesOf(synced[k].org, synced[k].name) = {}
    /\ Ended /\ (\E d \in Dests : CloneFailed(d)) =>
          result = "sync_failed" /\ AllProcessed

C10_Witness ==
    /\ pc = "exited"
    /\ result = "sync_failed"
    /\ Len(synced) = 2
    /\ synced[1].org = synced[2].org
    /\ CloneFailed(DestOf(synced[1]))
    /\ ~CloneFailed(DestOf(synced[2]))
    /\ lock = <<RepoLockEntry(synced[2], ws[DestOf(synced[2])].head)>>
    /\ \A i \in OrgIdx : listing[i].state = "array"

\* The calls made on a destination, in order.
CallsOf(d) == SelectSeq(calls, LAMBDA c : c.dest = d)

\* A fetch or a pull failed on the destination.
SoftFailed(d) ==
    \E i \in CallsOn(d, {"git fetch --prune", "git pull --ff-only"}) : ~calls[i].ok

\* C11: a failing fetch or pull neither aborts the pass nor marks it failed:
\* the repository still gets its lock entry, with the HEAD it has, and the
\* pull is attempted right after a fetch whether or not the fetch failed.
C11_FetchPullFailuresAreSoft ==
    /\ \A k \in 1..Len(synced) :
          LET repo == synced[k]
              d == DestOf(repo)
          IN SoftFailed(d) =>
                /\ Cardinality(EntriesOf(repo.org, repo.name)) = 1
                /\ \A i \in EntriesOf(repo.org, repo.name) : lock[i].head_sha = ws[d].head
    /\ \A i \in 1..Len(calls) :
          calls[i].cmd = "git fetch --prune" =>
              /\ i < Len(calls)
              /\ calls[i + 1].cmd = "git pull --ff-only"
              /\ calls[i + 1].dest = calls[i].dest
    /\ gh_state = "logged_in" => (has_errors <=> HardFailure)
    /\ Ended /\ (\E d \in Dests : SoftFailed(d)) =>
          AllProcessed /\ (result = "ok" <=> ~HardFailure)

C11_Witness ==
    /\ pc = "exited"
    /\ result = "ok"
    /\ Len(synced) = 2
    /\ Len(lock) = 2
    /\ \E i \in CallsOn(DestOf(synced[1]), {"git fetch --prune"}) :
          ~calls[i].ok /\ calls[i + 1].ok
    /\ \E i \in CallsOn(DestOf(synced[1]), {"git pull --ff-only"}) : calls[i].ok
    /\ lock[1].head_sha = RemoteHead
    /\ found[DestOf(synced[1])].head = "c1"

\* The tree is cloned, clean and on the repository's declared default branch.
CleanOnDefault(repo, w) ==
    /\ w.kind = "git"
    /\ w.status = "clean"
    /\ repo.default_branch # None
    /\ w.branch = repo.default_branch

\* C12: for a repository found cloned, clean and on its default branch, a
\* pass that is not a dry run invokes fetch --prune and then pull --ff-only,
\* in that order, and the entry's head_sha is HEAD as the pull left it.
C12_FetchThenPullThenHead ==
    \A k \in 1..Len(synced) :
        LET repo == synced[k]
            d == DestOf(repo)
            cs == CallsOf(d)
        IN CleanOnDefault(repo, found[d]) /\ ~dry_run =>
              /\ Len(cs) = 2
              /\ cs[1].cmd = "git fetch --prune"
              /\ cs[2].cmd = "git pull --ff-only"
              /\ Cardinality(EntriesOf(repo.org, repo.name)) = 1
              /\ \A i \in EntriesOf(repo.org, repo.name) :
                    lock[i].head_sha = IF cs[2].ok THEN RemoteHead ELSE found[d].head

C12_Witness ==
    /\ pc = "exited"
    /\ ~dry_run
    /\ \E k \in 1..Len(synced) :
          LET d == DestOf(synced[k])
          IN /\ CleanOnDefault(synced[k], found[d])
             /\ found[d].head = "c1"
             /\ CallsOf(d) = <<FetchCall(d, TRUE), PullCall(d, TRUE)>>
             /\ \E i \in EntriesOf(synced[k].org, synced[k].name) :
                   lock[i].head_sha = RemoteHead

\* ------------------------------------------------- a second pass in a row

\* What a command answered on a destination in the first pass (it succeeds
\* when the first pass did not run it).
Replayed(cmd, d) ==
    LET I == CallsOn(d, {cmd})
    IN IF I = {} THEN TRUE ELSE calls[CHOOSE i \in I : \A j \in I : i <= j].ok

\* How git behaves in the second pass: every command answers as it did in the
\* first one, or every command succeeds (a network that was down is back).
GitAnswers == {"same", "ok"}

\* The answer of a git command on a destination in the second pass.
Answer(git, cmd, d) == IF git = "same" THEN Replayed(cmd, d) ELSE TRUE

\* The inner loop of sync_all over the repos of one organization, from the state
\* acc of the pass: the workspace, the lock list, has_errors, the calls made.
RECURSIVE SyncRepos(_, _, _)
SyncRepos(repos, acc, git) ==
    IF repos = <<>> THEN acc
    ELSE LET repo == Head(repos)
             dest == DestDirForRepo(repo.org, repo.name)
             r == SyncRepo(repo, dest, acc.ws[dest], dry_run,
                           Answer(git, "git clone", dest),
                           Answer(git, "git fetch --prune", dest),
                           Answer(git, "git pull --ff-only", dest))
         IN IF IsArchived(repo) THEN SyncRepos(Tail(repos), acc, git)
            ELSE SyncRepos(Tail(repos),
                           [ws |-> [acc.ws EXCEPT ![dest] = r.w],
                            lock |-> AppendEntry(acc.lock, r),
                            has_errors |-> acc.has_errors \/ ~r.has_entry,
                            calls |-> acc.calls \o r.calls],
                           git)

\* The outer loop of sync_all from organization i on, the catalog answering as
\* it did in the first pass.
RECURSIVE SyncOrgs(_, _, _)
SyncOrgs(i, acc, git) ==
    LET queried == [acc EXCEPT !.calls = Append(@, GhListCall(ORGS[i],
                                           listing[i].state # "exit_nonzero"))]
    IN IF i > Len(ORGS) THEN acc
       ELSE IF ListFails(listing[i].state)
       THEN SyncOrgs(i + 1, [queried EXCEPT !.has_errors = TRUE], git)
       ELSE SyncOrgs(i + 1, SyncRepos(Repos(i), queried, git), git)

\* sync_all as a whole, run on the workspace the first pass left, gh and the
\* catalog answering as they did in the first pass.
SyncAll(git) ==
    LET auth == IF gh_state = "missing" THEN <<>>
                ELSE <<GhAuthCall(gh_state = "logged_in")>>
        acc == SyncOrgs(1, [ws |-> ws, lock |-> <<>>, has_errors |-> FALSE,
                            calls |-> auth], git)
    IN IF AuthResult(gh_state) # "ok"
       THEN [result |-> AuthResult(gh_state), ws |-> ws, calls |-> auth,
             written |-> FALSE, lockfile |-> lockfile]
       ELSE [result |-> IF acc.has_errors THEN "sync_failed" ELSE "ok",
             ws |-> acc.ws, calls |-> acc.calls,
             written |-> ~dry_run,
             lockfile |-> IF ~dry_run THEN WriteLock(lockfile, acc.lock) ELSE lockfile]

\* `ms repos sync` is invoked again, with the same option, once the first
\* command has exited.
Again ==
    /\ pc = "exited"
    /\ ~rerun.ran
    /\ \E git \in GitAnswers :
       \E r \in {SyncAll(git)} :
          /\ ws' = r.ws
          /\ lockfile' = r.lockfile
          /\ lock_writes' = IF r.written THEN lock_writes + 1 ELSE lock_writes
          /\ rerun' = [ran |-> TRUE, git |-> git, before |-> lockfile,
                       calls |-> r.calls, result |-> r.result]
    /\ UNCHANGED <<aside, pc, dry_run, lock, has_errors, org_i, repo_i, result,
                   exit_code, listing, gh_state, found, synced, calls>>

NextTwice == Next \/ Again

SpecTwice == Init /\ [][NextTwice]_vars

\* C13 as stated: a second sync_all right after the first, with no remote or
\* local change in between and the catalog answering the same, leaves the
\* lockfile with the content the first one left.
C13_SecondPassSameLockfile ==
    rerun.ran => lockfile = rerun.before

\* C13, amended: it does so when, besides, every git command answers in the
\* second pass as it did in the first (also when the first one had to clone);
\* the two passes then return the same result too.
C13_SecondPassSameLockfileIfSameAnswers ==
    rerun.ran /\ rerun.git = "same" => /\ lockfile = rerun.before
                                       /\ rerun.result = result

\* A second pass has run, git answering the same, after a first one that
\* cloned a repository and wrote its entry; the second one fetched and pulled
\* that repository.
C13_Witness ==
    /\ rerun.ran
    /\ rerun.git = "same"
    /\ ~dry_run
    /\ lockfile # <<>>
    /\ \E d \in Dests :
          /\ found[d] = Absent
          /\ \E i \in CallsOn(d, {"git clone"}) : calls[i].ok
          /\ \E k \in 1..Len(rerun.calls) :
                rerun.calls[k].dest = d /\ rerun.calls[k].cmd = "git pull --ff-only"

\* The lockfile holds an object of the previous lockfile.
KeepsPrevious ==
    \E i \in 1..Len(lockfile) : \E j \in 1..Len(PreviousLock) :
        lockfile[i] = PreviousLock[j]

\* The lockfile is untouched until sync_all reaches its tail, past the last
\* repository of the last organization; what it then holds is the entries of
\* this pass and nothing of the previous lockfile.
WrittenAtEndOnly ==
    /\ lock_writes = 0 => lockfile = PreviousLock
    /\ lock_writes > 0 =>
          /\ Ended
          /\ ~dry_run
          /\ AllProcessed
          /\ lockfile = LockPayload(lock)
          /\ ~KeepsPrevious

\* C14 as stated: a pass that is not a dry run writes the lockfile exactly
\* once, after the last repository of the last organization, with exactly the
\* entries of this pass and nothing of the previous lockfile.
C14_WrittenOnceEveryPass ==
    /\ WrittenAtEndOnly
    /\ Ended /\ ~dry_run => lock_writes = 1

\* C14, amended: so does a pass that is not a dry run and got past the gh
\* check; one stopped by the gh check leaves the lockfile as it was.
C14_WrittenOnceAfterGhCheck ==
    /\ WrittenAtEndOnly
    /\ Ended /\ ~dry_run =>
          lock_writes = IF AuthResult(gh_state) = "ok" THEN 1 ELSE 0

\* A pass has written a lockfile of two entries over the previous one.
C14_Witness ==
    /\ pc = "exited"
    /\ lock_writes = 1
    /\ Len(lock) = 2
    /\ lockfile = LockPayload(lock)
    /\ lockfile # PreviousLock

\* The index in ORGS of a repository's organization.
OrgIndexOf(repo) == CHOOSE i \in OrgIdx : ORGS[i] = repo.org

\* The position of a repository in the array the catalog returned.
CatalogPos(repo) ==
    CHOOSE j \in Listed(OrgIndexOf(repo)) :
        listing[OrgIndexOf(repo)].raw[j].name = repo.name

\* The rank of a lock entry's repository among the _sync_repo calls.
SyncRank(entry) == CHOOSE k \in SyncsOf(entry.org, entry.name) : TRUE

\* C15: organizations are processed in the order of ORGS, the repositories of
\* one organization in the order the catalog returned them, and the lock
\* entries are in that processing order.
C15_ProcessedInCatalogOrder ==
    /\ \A k, l \in 1..Len(synced) :
          k < l => \/ OrgIndexOf(synced[k]) < OrgIndexOf(synced[l])
                   \/ /\ OrgIndexOf(synced[k]) = OrgIndexOf(synced[l])
                      /\ CatalogPos(synced[k]) < CatalogPos(synced[l])
    /\ \A a \in 1..Len(lock) : SyncsOf(lock[a].org, lock[a].name) # {}
    /\ \A a, b \in 1..Len(lock) : a < b => SyncRank(lock[a]) < SyncRank(lock[b])

\* A pass has recorded a repository of each organization.
C15_Witness ==
    /\ pc = "exited"
    /\ Len(synced) = 2
    /\ Len(lock) = 2
    /\ lock[1].org = ORGS[1]
    /\ lock[2].org = ORGS[2]

\* Organization names: the two of ORGS and one that is neither.
SomeOrgs == {ORGS[i] : i \in OrgIdx} \cup {"petitechose-audio"}

\* The directory a repository belongs in: open-control/<name> for the
\* open-control organization, midi-studio/<name> for any other.
DirFor(org, name) ==
    <<IF org = "open-control" THEN "open-control" ELSE "midi-studio", name>>

\* C16: the destination of a repository is open-control/<name> when its
\* organization is open-control and midi-studio/<name> for every other
\* organization, and the directories a pass inspects, clones into, fetches and
\* pulls are exactly those of the repositories it processes.
C16_DestinationByOrgAndName ==
    /\ \A org \in SomeOrgs : \A name \in Names :
          DestDirForRepo(org, name) = DirFor(org, name)
    /\ {d \in Dests : found[d] # Unobserved}
          = {DirFor(synced[k].org, synced[k].name) : k \in 1..Len(synced)}
    /\ \A i \in 1..Len(calls) :
          calls[i].cmd \in Mutating =>
             \E k \in 1..Len(synced) :
                calls[i].dest = DirFor(synced[k].org, synced[k].name)

\* A pass has cloned one repository of each organization, each into the
\* directory of its organization.
C16_Witness ==
    /\ pc = "exited"
    /\ Len(synced) = 2
    /\ synced[1].org = "open-control"
    /\ synced[2].org = "petitechose-midi-studio"
    /\ \E i \in CallsOn(<<"open-control", synced[1].name>>, {"git clone"}) : calls[i].ok
    /\ \E i \in CallsOn(<<"midi-studio", synced[2].name>>, {"git clone"}) : calls[i].ok

\* -------------------------------------------- _list_org_repos on any array

\* Length of the arrays gh prints in this specification.
MaxItems == 2

\* An array element that is no JSON object (null, a string, a number).
NotAnObject ==
    [isDict |-> FALSE, name |-> None, url |-> None, isArchived |-> FALSE,
     defaultBranchRef |-> NullRef]

\* The elements an array can hold: the items of the organization, an object
\* with an empty name, one with an empty url, one without url, and an element
\* that is no object.
ListItems(org) ==
    RawItems(org) \cup
    {[isDict |-> TRUE, name |-> "", url |-> "https://x/empty", isArchived |-> FALSE,
      defaultBranchRef |-> MainRef],
     [isDict |-> TRUE, name |-> "tools", url |-> "", isArchived |-> FALSE,
      defaultBranchRef |-> MainRef],
     [isDict |-> TRUE, name |-> "docs", url |-> None, isArchived |-> FALSE,
      defaultBranchRef |-> NullRef],
     NotAnObject}

\* The arrays of at most n elements.
RECURSIVE Arrays(_, _)
Arrays(org, n) ==
    IF n = 0 THEN {<<>>}
    ELSE Arrays(org, n - 1) \cup
         {Append(a, x) : a \in {b \in Arrays(org, n - 1) : Len(b) = n - 1},
                         x \in ListItems(org)}

ListInit ==
    /\ \E org \in {ORGS[i] : i \in OrgIdx}, outcome \in GhListOutcomes :
       \E raw \in Arrays(org, MaxItems) :
          /\ ListFails(outcome) => raw = <<>>
          /\ gh_out = [outcome |-> outcome, org |-> org, raw |-> raw]
    /\ listed = NotListed

\* self._list_org_repos(org, limit=200)
ListOrg ==
    /\ listed = NotListed
    /\ listed' = ListOrgReposReturn(gh_out.outcome, gh_out.org, gh_out.raw)
    /\ UNCHANGED <<syncVars, statusVars, installVars, further, gh_out>>

InitList == SyncInit /\ StatusIdle /\ InstallIdle /\ FurtherIdle /\ ListInit

NextList == ListOrg

SpecList == InitList /\ [][NextList]_vars

\* The element is an object with a non-empty string name and url.
HasNameAndUrl(x) ==
    /\ x.isDict
    /\ x.name \notin {None, ""}
    /\ x.url \notin {None, ""}

\* Positions in the array of the elements with a name and a url.
GoodAt(raw) == {i \in 1..Len(raw) : HasNameAndUrl(raw[i])}

\* The position of the k-th of them.
KthGood(raw, k) ==
    CHOOSE i \in GoodAt(raw) : Cardinality({j \in GoodAt(raw) : j <= i}) = k

\* The call returned None exactly when gh failed, printed no JSON or printed
\* JSON that is no array, and otherwise the list, in array order, of one
\* RepoRef per element with a non-empty string name and url.
ReturnsNoneOrGoodOnes ==
    /\ listed.kind = "None" <=> gh_out.outcome \in {"exit_nonzero", "invalid_json", "not_array"}
    /\ gh_out.outcome = "array" =>
          /\ listed.kind = "list"
          /\ Len(listed.repos) = Cardinality(GoodAt(gh_out.raw))
          /\ \A k \in 1..Len(listed.repos) :
                LET x == gh_out.raw[KthGood(gh_out.raw, k)]
                IN /\ listed.repos[k].org = gh_out.org
                   /\ listed.repos[k].name = x.name
                   /\ listed.repos[k].url = x.url
                   /\ listed.repos[k].archived = x.isArchived

\* C17 as stated: _list_org_repos returns None exactly on the three failures
\* of gh, and otherwise one RepoRef, in array order, per element with a
\* non-empty string name and url, any other element being skipped.
C17_MalformedElementsSkipped ==
    listed # NotListed => ReturnsNoneOrGoodOnes

\* C17 for arrays of objects: it holds when every element of the array is an
\* object; an element that is no object ends the call with an AttributeError.
C17_MalformedObjectsSkipped ==
    listed # NotListed =>
       IF \A i \in 1..Len(gh_out.raw) : gh_out.raw[i].isDict
       THEN ReturnsNoneOrGoodOnes
       ELSE listed.kind = "AttributeError"

\* The call returned the one RepoRef of an array of two objects, the first of
\* which has no url.
C17_Witness ==
    /\ listed.kind = "list"
    /\ Len(gh_out.raw) = 2
    /\ gh_out.raw[1].isDict /\ gh_out.raw[1].url = None
    /\ Len(listed.repos) = 1
    /\ listed.repos[1].name = gh_out.raw[2].name

\* ------------------------------------------------------ the status command

\* The directories _collect_repos looks at, in the order it looks at them: the
\* workspace root, the children of midi-studio sorted, those of open-control
\* sorted.
Candidates ==
    <<[name |-> "ms", path |-> "."],
      [name |-> "midi-studio/core", path |-> "midi-studio/core"],
      [name |-> "open-control/bridge", path |-> "open-control/bridge"]>>

\* _collect_repos: the candidates that hold a .git, in that order.
RECURSIVE CollectRepos(_, _)
CollectRepos(cands, git_dirs) ==
    IF cands = <<>> THEN <<>>
    ELSE (IF Head(cands).path \in git_dirs THEN <<Head(cands)>> ELSE <<>>)
         \o CollectRepos(Tail(cands), git_dirs)

\* A GitStatus, and the None a failed query leaves in its place.
GitStatus(is_clean, ahead, behind) ==
    [some |-> TRUE, is_clean |-> is_clean, ahead |-> ahead, behind |-> behind]

NoStatus == [some |-> FALSE, is_clean |-> FALSE, ahead |-> 0, behind |-> 0]

\* What Repository.status() can return: Ok of a GitStatus (clean and level,
\* dirty, ahead, behind) or Err of a GitError with its message.
StatusResults ==
    {[ok |-> TRUE, st |-> GitStatus(c, a, b), message |-> None] :
        <<c, a, b>> \in {<<TRUE, 0, 0>>, <<FALSE, 0, 0>>, <<TRUE, 1, 0>>, <<TRUE, 0, 1>>}}
    \cup {[ok |-> FALSE, st |-> NoStatus, message |-> m] :
            m \in {"not a git repository", ""}}

\* The RepoStatus dataclass.
RepoStatus(name, path, status, error) ==
    [name |-> name, path |-> path, status |-> status, error |-> error]

\* RepoStatus.has_changes
HasChanges(r) ==
    IF ~r.status.some THEN FALSE
    ELSE ~r.status.is_clean \/ r.status.ahead > 0 \/ r.status.behind > 0

\* The truth value of r.error: None and the empty string are false.
HasError(r) == r.error \notin {None, ""}

\* Mutation of the match: an Err ends the collection.
AfterQueryStopOnErr(res, more) == IF more /\ res.ok THEN "query" ELSE "render"

\* The for loop moves on to the next repository, or ends.
AfterQuery(res, more) == IF more THEN "query" ELSE "render"

\* `ms status [--fetch]` is invoked: build_context, _collect_repos, and the
\* fetch of every repository when asked for.
Status ==
    /\ st_pc = "idle"
    /\ \E f \in BOOLEAN, git_dirs \in SUBSET {Candidates[i].path : i \in 1..Len(Candidates)} :
          LET l == CollectRepos(Candidates, git_dirs)
          IN /\ st_fetch' = f
             /\ repo_list' = l
             /\ fetched' = IF f THEN [i \in 1..Len(l) |-> l[i].path] ELSE <<>>
             /\ st_pc' = IF l = <<>> THEN "render" ELSE "query"
    /\ UNCHANGED <<syncVars, listVars, installVars, further,
                 answers, statuses, changed, clean>>

\* One iteration of the loop that collects the statuses.
QueryStatus ==
    /\ st_pc = "query"
    /\ LET i == Len(statuses) + 1
           repo == repo_list[i]
       IN \E res \in StatusResults :
             /\ answers' = Append(answers, [path |-> repo.path, res |-> res])
             /\ statuses' = Append(statuses,
                               IF res.ok
                               THEN RepoStatus(repo.name, repo.path, res.st, None)
                               ELSE RepoStatus(repo.name, repo.path, NoStatus, res.message))
             /\ st_pc' = AfterQuery(res, i < Len(repo_list))
    /\ UNCHANGED <<syncVars, listVars, installVars, further,
                 st_fetch, repo_list, fetched, changed, clean>>

\* The two lists the panels are rendered from.
Render ==
    /\ st_pc = "render"
    /\ changed' = SelectSeq(statuses, LAMBDA r : HasChanges(r) \/ HasError(r))
    /\ clean' = SelectSeq(statuses, LAMBDA r : ~HasChanges(r) /\ ~HasError(r))
    /\ st_pc' = "done"
    /\ UNCHANGED <<syncVars, listVars, installVars, further,
                 st_fetch, repo_list, fetched, answers, statuses>>

InitStatus == SyncInit /\ ListIdle /\ InstallIdle /\ FurtherIdle /\ StatusIdle

NextStatus == Status \/ QueryStatus \/ Render

SpecStatus == InitStatus /\ [][NextStatus]_vars

\* C18: a failed status query never aborts the report: every discovered
\* repository is queried and yields exactly one RepoStatus, in order; a failed
\* one carries the error message and no GitStatus, a successful one the
\* GitStatus and no error.
C18_EveryRepoReported ==
    /\ Len(statuses) = Len(answers)
    /\ Len(statuses) <= Len(repo_list)
    /\ st_pc \in {"render", "done"} => Len(statuses) = Len(repo_list)
    /\ \A k \in 1..Len(statuses) :
          /\ answers[k].path = repo_list[k].path
          /\ statuses[k].name = repo_list[k].name
          /\ statuses[k].path = repo_list[k].path
          /\ IF answers[k].res.ok
             THEN statuses[k].status = answers[k].res.st /\ statuses[k].error = None
             ELSE statuses[k].status = NoStatus /\ statuses[k].error = answers[k].res.message

\* The report is complete over three repositories, the query of the first of
\* which failed.
C18_Witness ==
    /\ st_pc = "done"
    /\ Len(repo_list) = 3
    /\ ~answers[1].res.ok
    /\ statuses[1].error = "not a git repository"
    /\ answers[2].res.ok /\ answers[3].res.ok
    /\ statuses[3].status.some

\* The positions in a list of RepoStatus of the k-th repository queried.
PlacedIn(seq, k) == {i \in 1..Len(seq) : seq[i] = statuses[k]}

\* The k-th repository is in the list, and two repositories of the list are
\* there in the order they were queried in.
InOrderIn(seq) ==
    \A k1, k2 \in 1..Len(statuses) :
        k1 < k2 =>
           \A i1 \in PlacedIn(seq, k1) : \A i2 \in PlacedIn(seq, k2) : i1 < i2

\* Every repository is in exactly one of changed and clean, in changed when
\* the condition holds of it, and the order of the queries is kept in both.
PartitionedBy(IsChanged(_)) ==
    /\ Len(changed) + Len(clean) = Len(statuses)
    /\ \A k \in 1..Len(statuses) :
          /\ Cardinality(PlacedIn(changed, k)) + Cardinality(PlacedIn(clean, k)) = 1
          /\ PlacedIn(changed, k) # {} <=> IsChanged(k)
    /\ InOrderIn(changed)
    /\ InOrderIn(clean)

\* The status of the k-th repository has a change entry, or commits ahead or
\* behind.
Diverged(k) ==
    /\ answers[k].res.ok
    /\ \/ ~answers[k].res.st.is_clean
       \/ answers[k].res.st.ahead > 0
       \/ answers[k].res.st.behind > 0

\* C24 as stated: the repositories are partitioned into changed and clean, a
\* repository being in changed exactly when its status query errored, or its
\* status has a change entry, or ahead > 0, or behind > 0; the relative order
\* of the repositories is kept in each group.
C24_ErroredIsChanged ==
    st_pc = "done" =>
       PartitionedBy(LAMBDA k : ~answers[k].res.ok \/ Diverged(k))

\* C24, what the command does: the repositories are partitioned into changed
\* and clean, in order; a repository is in changed exactly when its status
\* query errored with a message that is not empty, or its status has a change
\* entry, or ahead > 0, or behind > 0. A repository whose query errored with
\* an empty message is in clean.
C24_ErroredWithMessageIsChanged ==
    st_pc = "done" =>
       PartitionedBy(LAMBDA k : (~answers[k].res.ok /\ answers[k].res.message # "")
                                \/ Diverged(k))

\* Three repositories: the query of the first failed with a message, the
\* second is behind its upstream, the third is clean and level; the first two
\* are in changed, in that order.
C24_Witness ==
    /\ st_pc = "done"
    /\ Len(statuses) = 3
    /\ answers[1].res.message = "not a git repository"
    /\ answers[2].res.ok /\ answers[2].res.st.behind = 1
    /\ answers[3].res.ok /\ answers[3].res.st = GitStatus(TRUE, 0, 0)
    /\ changed = <<statuses[1], statuses[2]>>
    /\ clean = <<statuses[3]>>

\* ------------------------------------- skips and failures of _sync_repo

\* The destination was found existing, without .git entry.
FoundNoGit(d) == found[d].kind = "dir"

\* C23: a repository whose destination exists without .git entry gets one
\* lock entry with head_sha None and no clone, fetch or pull, its directory is
\* left as it was, and the pass is marked failed by nothing but a clone that
\* failed on a destination that was absent or a catalog listing that failed.
C23_NoGitSkipRecorded ==
    /\ \A k \in 1..Len(synced) :
          \E d \in {DestOf(synced[k])} :
             FoundNoGit(d) =>
                /\ CallsOn(d, Mutating) = {}
                /\ ws[d] = found[d]
                /\ \E i \in 1..Len(lock) :
                      /\ lock[i] = RepoLockEntry(synced[k], None)
                      /\ EntriesOf(synced[k].org, synced[k].name) = {i}
    /\ has_errors =>
          \/ \E d \in Dests : found[d].kind = "absent" /\ CloneFailed(d)
          \/ \E i \in OrgIdx : ListFailed(i)

\* A pass that is not a dry run found the one repository of the catalogs in a
\* directory without .git, recorded it with head_sha None and returned Ok.
C23_Witness ==
    /\ pc = "exited"
    /\ ~dry_run
    /\ result = "ok"
    /\ Len(synced) = 1
    /\ FoundNoGit(DestOf(synced[1]))
    /\ lockfile = <<RepoLockEntry(synced[1], None)>>
    /\ \A i \in 1..Len(calls) : calls[i].cmd \notin Mutating

\* `git status --porcelain` exits non-zero in the tree.
StatusFails(w) == w.kind = "git" /\ w.status = "err"

\* The commands run on a destination, in order.
CmdsOn(d) == [i \in 1..Len(CallsOf(d)) |-> CallsOf(d)[i].cmd]

\* C26: a repository whose destination has a .git entry and whose dirty check
\* fails is treated as not dirty: the branch check decides. On another
\* branch than the declared default it is skipped with its HEAD recorded;
\* otherwise a pass that is not a dry run fetches and pulls it, and a dry run
\* runs nothing.  Either way it gets its lock entry.
C26_FailedDirtyCheckIsNotDirty ==
    \A k \in 1..Len(synced) :
        \E d \in {DestOf(synced[k])} :
           StatusFails(found[d]) =>
              /\ Cardinality(EntriesOf(synced[k].org, synced[k].name)) = 1
              /\ CmdsOn(d) = IF dry_run \/ OtherBranch(synced[k], found[d]) THEN <<>>
                             ELSE <<"git fetch --prune", "git pull --ff-only">>
              /\ \A i \in EntriesOf(synced[k].org, synced[k].name) :
                    lock[i].head_sha = IF dry_run THEN None ELSE ws[d].head

\* A repository on its default branch whose dirty check failed was fetched
\* and pulled, and recorded at the head of the remote.
C26_Witness ==
    /\ pc = "exited"
    /\ ~dry_run
    /\ Len(synced) = 1
    /\ StatusFails(found[DestOf(synced[1])])
    /\ found[DestOf(synced[1])].branch = "main"
    /\ found[DestOf(synced[1])].head = "c1"
    /\ synced[1].default_branch = "main"
    /\ CmdsOn(DestOf(synced[1])) = <<"git fetch --prune", "git pull --ff-only">>
    /\ \A i \in 1..Len(calls) : calls[i].ok
    /\ lock[1].head_sha = RemoteHead

\* The tree is clean, and the declared default branch or the branch checked
\* out is not known.
CleanBranchUnknown(repo, w) ==
    /\ w.kind = "git"
    /\ w.status = "clean"
    /\ repo.default_branch = None \/ w.branch = None

\* A clean tree is skipped only when both branches are known and differ.
SkippedOnlyIfBothKnown ==
    \A k \in 1..Len(synced) :
        \E d \in {DestOf(synced[k])} :
           (found[d].kind = "git" /\ found[d].status = "clean" /\ ~dry_run
              /\ CmdsOn(d) = <<>>) =>
              /\ synced[k].default_branch # None
              /\ found[d].branch # None
              /\ found[d].branch # synced[k].default_branch

\* C27 as stated: the wrong-branch skip fires only when both branches are
\* known and differ, and a clean repository whose default branch is not
\* declared or whose current branch cannot be determined is fetched and
\* pulled.
C27_UnknownBranchAlwaysUpdated ==
    /\ SkippedOnlyIfBothKnown
    /\ \A k \in 1..Len(synced) :
          \E d \in {DestOf(synced[k])} :
             CleanBranchUnknown(synced[k], found[d]) =>
                CmdsOn(d) = <<"git fetch --prune", "git pull --ff-only">>

\* C27 amended: the wrong-branch skip fires only when both branches are
\* known and differ, and a clean repository whose default branch is not
\* declared or whose current branch cannot be determined is fetched and
\* pulled by a pass that is not a dry run; a dry run runs nothing on it.
C27_UnknownBranchUpdatedUnlessDryRun ==
    /\ SkippedOnlyIfBothKnown
    /\ \A k \in 1..Len(synced) :
          \E d \in {DestOf(synced[k])} :
             CleanBranchUnknown(synced[k], found[d]) =>
                CmdsOn(d) = IF dry_run THEN <<>>
                            ELSE <<"git fetch --prune", "git pull --ff-only">>

\* A repository without declared default branch, found clean on feature-x,
\* was fetched and pulled.
C27_Witness ==
    /\ pc = "exited"
    /\ ~dry_run
    /\ Len(synced) = 1
    /\ synced[1].default_branch = None
    /\ found[DestOf(synced[1])].status = "clean"
    /\ found[DestOf(synced[1])].branch = "feature-x"
    /\ CmdsOn(DestOf(synced[1])) = <<"git fetch --prune", "git pull --ff-only">>
    /\ ws[DestOf(synced[1])].head = RemoteHead

\* The lockfile holds an entry of the organization, of the repository.
InLockfileOrg(org) == \E i \in 1..Len(lockfile) : lockfile[i].org = org

InLockfile(org, name) ==
    \E i \in 1..Len(lockfile) : lockfile[i].org = org /\ lockfile[i].name = name

\* C28: a pass that is not a dry run, got past the gh check and ends in
\* failure has overwritten the lockfile: it holds the entries of the
\* repositories that got one in this pass and nothing else, so none of a
\* repository whose clone failed and none of an organization whose listing
\* failed, whatever the previous lockfile held.
C28_FailedPassOverwritesLockfile ==
    (Ended /\ ~dry_run /\ gh_state = "logged_in" /\ result = "sync_failed") =>
       /\ lock_writes = 1
       /\ lockfile = LockPayload(lock)
       /\ \A i \in OrgIdx : ListFailed(i) => ~InLockfileOrg(ORGS[i])
       /\ \A k \in 1..Len(synced) :
             CloneFailed(DestOf(synced[k])) => ~InLockfile(synced[k].org, synced[k].name)
       /\ \A i \in 1..Len(lockfile) :
             \E k \in 1..Len(synced) :
                /\ synced[k].org = lockfile[i].org
                /\ synced[k].name = lockfile[i].name
                /\ ~CloneFailed(DestOf(synced[k]))

\* The listing of open-control failed, a repository of the other organization
\* was recorded, and the entry the previous lockfile had for open-control is
\* gone.
C28_Witness ==
    /\ pc = "exited"
    /\ ~dry_run
    /\ result = "sync_failed"
    /\ ListFailed(1)
    /\ InLockfileOrg(ORGS[2])
    /\ Len(lockfile) = 1
    /\ \E i \in 1..Len(PreviousLock) : PreviousLock[i].org = ORGS[1]
    /\ ~InLockfileOrg(ORGS[1])

\* ------------------------------------------------------- SystemInstaller

\* Number of CheckResults handed to plan_installation.
MaxResults == 3

\* A hint is the sequence of its words, the empty sequence for a result
\* without hint or with a blank one; strip() leaves the words as they are.
\* The CheckResults of the host checks: safe installs, a pipeline, a hint that
\* tells what to run, an exact command, a result without hint, an installer
\* without package, an unclosed quote, a quoted package, and a safe install
\* piped into a shell.
CheckResults ==
    {[name |-> "pkg-config", hint |-> <<"sudo", "apt", "install", "pkg-config">>],
     [name |-> "SDL2", hint |-> <<"sudo", "apt", "install", "libsdl2-dev">>],
     [name |-> "uv", hint |-> <<"curl", "-LsSf", "https://astral.sh/uv/install.sh", "|", "sh">>],
     [name |-> "gh auth", hint |-> <<"Run:", "gh", "auth", "login">>],
     [name |-> "inkscape", hint |-> <<"brew", "install", "--cask", "inkscape">>],
     [name |-> "pkg-config", hint |-> <<"brew", "install", "pkg-config">>],
     [name |-> "xcode", hint |-> <<"xcode-select", "--install">>],
     [name |-> "git", hint |-> <<>>],
     [name |-> "apt", hint |-> <<"sudo", "apt", "install">>],
     [name |-> "gh", hint |-> <<"sudo", "apt", "install", "'gh">>],
     [name |-> "gh", hint |-> <<"sudo", "apt", "install", "'gh'">>],
     [name |-> "rustup", hint |-> <<"sudo", "apt", "install", "rustup", "|", "sh">>]}

\* The lists of at most n CheckResults.
RECURSIVE ResultLists(_)
ResultLists(n) ==
    IF n = 0 THEN {<<>>}
    ELSE ResultLists(n - 1) \cup
         {Append(l, r) : l \in {m \in ResultLists(n - 1) : Len(m) = n - 1},
                         r \in CheckResults}

\* The first words that start with "Run:", "N/A", "http://" or "https://".
ManualFirstWords == {"Run:", "N/A", "https://astral.sh/uv/install.sh"}

\* The prefixes of _MANUAL_PREFIXES that end with a space.
ManualSpacedWords == {"Install", "Enable", "Download"}

SHELL_META == {"|", "||", "&&", ";", ">", ">>", "<", "2>", "&>"}

SAFE_PREFIXES ==
    {<<"sudo", "apt", "install">>, <<"sudo", "dnf", "install">>,
     <<"sudo", "pacman", "-S">>, <<"brew", "install">>, <<"winget", "install">>}

SAFE_EXACT == {<<"xcode-select", "--install">>}

\* _is_manual_hint: the stripped hint starts with one of _MANUAL_PREFIXES.
IsManualHint(hint) ==
    /\ hint # <<>>
    /\ \/ hint[1] \in ManualFirstWords
       \/ hint[1] \in ManualSpacedWords /\ Len(hint) > 1

\* No argv: the None of _parse_safe_install_argv.
NoArgv == [ok |-> FALSE, argv |-> <<>>]

\* shlex.split(hint, posix=True): a word with an unclosed quote raises
\* ValueError, a quoted word loses its quotes, any other word is a token.
ShlexSplit(hint) ==
    IF \E i \in 1..Len(hint) : hint[i] = "'gh" THEN NoArgv
    ELSE [ok |-> TRUE,
          argv |-> [i \in 1..Len(hint) |-> IF hint[i] = "'gh'" THEN "gh" ELSE hint[i]]]

\* Mutation of the metacharacter test: it is not made.
HasShellMetaNever(argv) == FALSE

\* any(tok in _SHELL_META for tok in argv)
HasShellMeta(argv) == \E i \in 1..Len(argv) : argv[i] \in SHELL_META

\* tuple(argv[: len(prefix)]) == prefix and len(argv) > len(prefix)
MatchesPrefix(argv, prefix) ==
    /\ Len(argv) > Len(prefix)
    /\ SubSeq(argv, 1, Len(prefix)) = prefix

\* _parse_safe_install_argv
ParseSafeInstallArgv(hint) ==
    IF IsManualHint(hint) THEN NoArgv
    ELSE LET split == ShlexSplit(hint)
         IN IF ~split.ok THEN NoArgv
            ELSE IF split.argv = <<>> THEN NoArgv
            ELSE IF HasShellMeta(split.argv) THEN NoArgv
            ELSE IF \E prefix \in SAFE_PREFIXES : MatchesPrefix(split.argv, prefix)
            THEN split
            ELSE IF split.argv \in SAFE_EXACT THEN split
            ELSE NoArgv

InstallStep(name, argv) == [name |-> name, argv |-> argv]

\* The loop of plan_installation: one step per hint that parses, one manual
\* step per other hint, nothing for a result without hint.
RECURSIVE PlanInstallation(_)
PlanInstallation(rs) ==
    IF rs = <<>> THEN EmptyPlan
    ELSE LET r == Head(rs)
             argv == ParseSafeInstallArgv(r.hint)
             rest == PlanInstallation(Tail(rs))
         IN IF r.hint = <<>> THEN rest
            ELSE IF ~argv.ok
            THEN [rest EXCEPT !.manual = <<<<r.name, r.hint>>>> \o @]
            ELSE [rest EXCEPT !.steps = <<InstallStep(r.name, argv.argv)>> \o @]

\* The returncodes of an install command: 0, or one that is not.
ReturnCodes == {0, 1}

\* apply has run nothing: what it returns, and whether it called confirm.
NothingRun(ok, prompted) ==
    [runs |-> <<>>, returns |-> <<>>, success |-> ok, asked |-> prompted]

\* Mutation of the loop of apply: no break after a command that failed.
RECURSIVE RunStepsNoBreak(_, _, _)
RunStepsNoBreak(steps, codes, prompted) ==
    IF steps = <<>> THEN NothingRun(TRUE, prompted)
    ELSE LET rest == RunStepsNoBreak(Tail(steps), Tail(codes), prompted)
         IN [runs |-> <<Head(steps).argv>> \o rest.runs,
             returns |-> <<Head(codes)>> \o rest.returns,
             success |-> Head(codes) = 0 /\ rest.success,
             asked |-> prompted]

\* The loop of apply over the steps: the runner is handed the argv of each
\* step in turn; codes[i] is the returncode it gives for the i-th step, and
\* the loop breaks after the first that is not 0.
RECURSIVE RunSteps(_, _, _)
RunSteps(steps, codes, prompted) ==
    IF steps = <<>> THEN NothingRun(TRUE, prompted)
    ELSE IF Head(codes) # 0
    THEN [runs |-> <<Head(steps).argv>>, returns |-> <<Head(codes)>>,
          success |-> FALSE, asked |-> prompted]
    ELSE LET rest == RunSteps(Tail(steps), Tail(codes), prompted)
         IN [rest EXCEPT !.runs = <<Head(steps).argv>> \o @,
                         !.returns = <<Head(codes)>> \o @]

\* Mutation of apply: assume_yes is looked at before dry_run.
ApplyPlanYesFirst(p, args, codes) ==
    IF p.steps = <<>> /\ p.manual = <<>> THEN NothingRun(TRUE, FALSE)
    ELSE IF p.steps = <<>> THEN NothingRun(TRUE, FALSE)
    ELSE IF args.assume_yes THEN RunSteps(p.steps, codes, FALSE)
    ELSE IF args.dry_run THEN NothingRun(TRUE, FALSE)
    ELSE IF args.confirm = None THEN NothingRun(FALSE, FALSE)
    ELSE IF args.confirm = "no" THEN NothingRun(FALSE, TRUE)
    ELSE RunSteps(p.steps, codes, TRUE)

\* apply: what it runs and what it returns.
ApplyPlan(p, args, codes) ==
    IF p.steps = <<>> /\ p.manual = <<>> THEN NothingRun(TRUE, FALSE)
    ELSE IF p.steps = <<>> THEN NothingRun(TRUE, FALSE)
    ELSE IF args.dry_run THEN NothingRun(TRUE, FALSE)
    ELSE IF args.assume_yes THEN RunSteps(p.steps, codes, FALSE)
    ELSE IF args.confirm = None THEN NothingRun(FALSE, FALSE)
    ELSE IF args.confirm = "no" THEN NothingRun(FALSE, TRUE)
    ELSE RunSteps(p.steps, codes, TRUE)

InstallInit ==
    /\ ins_pc = "idle"
    /\ results \in ResultLists(MaxResults)
    /\ plan = EmptyPlan
    /\ apply_args = NoArgs
    /\ runs = <<>>
    /\ success = TRUE
    /\ asked = FALSE
    /\ returns = <<>>

\* installer.plan_installation(results)
Plan ==
    /\ ins_pc = "idle"
    /\ plan' = PlanInstallation(results)
    /\ ins_pc' = "planned"
    /\ UNCHANGED <<syncVars, listVars, statusVars, further, results, apply_args, runs, success,
                   asked, returns>>

\* installer.apply(plan, dry_run=..., assume_yes=...)
Apply ==
    /\ ins_pc = "planned"
    /\ \E dry, yes \in BOOLEAN, confirm \in {None, "yes", "no"},
          codes \in [1..Len(plan.steps) -> ReturnCodes] :
          \E r \in {ApplyPlan(plan, [dry_run |-> dry, assume_yes |-> yes,
                                     confirm |-> confirm], codes)} :
             /\ apply_args' = [dry_run |-> dry, assume_yes |-> yes, confirm |-> confirm]
             /\ runs' = r.runs
             /\ returns' = r.returns
             /\ success' = r.success
             /\ asked' = r.asked
    /\ ins_pc' = "applied"
    /\ UNCHANGED <<syncVars, listVars, statusVars, further, results, plan>>

InitInstall == SyncInit /\ ListIdle /\ StatusIdle /\ FurtherIdle /\ InstallInit

NextInstall == Plan \/ Apply

SpecInstall == InitInstall /\ [][NextInstall]_vars

\* The argv of the hint of a result once plan_installation has let it through.
ArgvAt(i) == ParseSafeInstallArgv(results[i].hint)

\* The results whose hint became a step.
SafeAt == {i \in 1..Len(results) : results[i].hint # <<>> /\ ArgvAt(i).ok}

\* The results whose hint became a step, in order.
SafeResults ==
    SelectSeq(results, LAMBDA r : r.hint # <<>> /\ ParseSafeInstallArgv(r.hint).ok)

\* The argv starts with an allowlisted installer prefix and goes on.
HasPrefix(argv) == \E p \in SAFE_PREFIXES : MatchesPrefix(argv, p)

PrefixOf(argv) == CHOOSE p \in SAFE_PREFIXES : MatchesPrefix(argv, p)

\* What follows the installer prefix.
Packages(argv) == SubSeq(argv, Len(PrefixOf(argv)) + 1, Len(argv))

\* The words that are installer flags.
FlagWords == {"--cask", "--install", "-S", "-LsSf"}

\* The argv installs plain packages with a multi-package installer.
Groupable(argv) ==
    /\ HasPrefix(argv)
    /\ \A i \in 1..Len(Packages(argv)) : Packages(argv)[i] \notin FlagWords

\* The sequence without its repeated elements, first occurrences kept.
RECURSIVE Distinct(_)
Distinct(seq) ==
    IF seq = <<>> THEN <<>>
    ELSE LET init == SubSeq(seq, 1, Len(seq) - 1)
             last == seq[Len(seq)]
         IN IF \E i \in 1..Len(init) : init[i] = last
            THEN Distinct(init)
            ELSE Append(Distinct(init), last)

\* The packages of the first n results that install plain packages with the
\* installer prefix p, in order.
RECURSIVE PackagesFor(_, _)
PackagesFor(p, n) ==
    IF n = 0 THEN <<>>
    ELSE PackagesFor(p, n - 1) \o
         (IF n \in SafeAt /\ Groupable(ArgvAt(n).argv) /\ PrefixOf(ArgvAt(n).argv) = p
          THEN Packages(ArgvAt(n).argv)
          ELSE <<>>)

\* A hint with installer flags has a step of its own, with its own argv.
FlagVariantsSeparate ==
    \A i \in SafeAt :
        ~Groupable(ArgvAt(i).argv) =>
           \E k \in 1..Len(plan.steps) :
              plan.steps[k] = InstallStep(results[i].name, ArgvAt(i).argv)

\* C19 as stated: the results whose hints share an installer prefix yield a
\* single step, whose argv is the prefix followed by the distinct packages in
\* first-seen order, and a hint with installer flags stays a step of its own.
C19_SharedPrefixGrouped ==
    ins_pc # "idle" =>
       /\ \A p \in SAFE_PREFIXES :
             PackagesFor(p, Len(results)) # <<>> =>
                /\ \E k \in 1..Len(plan.steps) :
                      plan.steps[k].argv = p \o Distinct(PackagesFor(p, Len(results)))
                /\ Cardinality({k \in 1..Len(plan.steps) :
                                  /\ Groupable(plan.steps[k].argv)
                                  /\ PrefixOf(plan.steps[k].argv) = p}) = 1
       /\ FlagVariantsSeparate

\* C19, what plan_installation does: every hint that parses is a step of its
\* own, in the order of the results, with the argv of that hint alone; hints
\* that differ in installer flags are separate steps as are hints that share
\* an installer prefix.
C19_OneStepPerSafeHint ==
    ins_pc # "idle" =>
       /\ plan.steps = [k \in 1..Len(SafeResults) |->
                           InstallStep(SafeResults[k].name,
                                       ParseSafeInstallArgv(SafeResults[k].hint).argv)]
       /\ FlagVariantsSeparate

\* The plan of `brew install --cask inkscape` and `brew install pkg-config`
\* has the two steps.
C19_Witness ==
    /\ ins_pc = "planned"
    /\ Len(results) = 2
    /\ results[1].hint = <<"brew", "install", "--cask", "inkscape">>
    /\ results[2].hint = <<"brew", "install", "pkg-config">>
    /\ Len(plan.steps) = 2
    /\ plan.steps[1].argv = <<"brew", "install", "--cask", "inkscape">>
    /\ plan.steps[2].argv = <<"brew", "install", "pkg-config">>

\* The argv is an allowlisted installer prefix followed by at least one more
\* token, or an allowlisted exact command, and holds no shell metacharacter.
Allowlisted(argv) ==
    /\ \/ \E p \in SAFE_PREFIXES :
             Len(argv) >= Len(p) + 1 /\ \A i \in 1..Len(p) : argv[i] = p[i]
       \/ argv \in SAFE_EXACT
    /\ \A i \in 1..Len(argv) : argv[i] \notin SHELL_META

\* The results with a hint.
HintedAt == {i \in 1..Len(results) : results[i].hint # <<>>}

\* C20: every step of a plan has an allowlisted argv without shell
\* metacharacter; every other non-empty hint is in the manual list, and apply
\* hands the runner nothing but the argv of steps.
C20_OnlyAllowlistedSteps ==
    /\ ins_pc # "idle" =>
          /\ \A k \in 1..Len(plan.steps) : Allowlisted(plan.steps[k].argv)
          /\ Len(plan.steps) + Len(plan.manual) = Cardinality(HintedAt)
          /\ \A i \in HintedAt :
                \/ \E k \in 1..Len(plan.steps) :
                      /\ plan.steps[k].name = results[i].name
                      /\ ShlexSplit(results[i].hint).ok
                      /\ plan.steps[k].argv = ShlexSplit(results[i].hint).argv
                \/ \E m \in 1..Len(plan.manual) :
                      plan.manual[m] = <<results[i].name, results[i].hint>>
          /\ \A m \in 1..Len(plan.manual) : \A k \in 1..Len(plan.steps) :
                plan.manual[m][2] # plan.steps[k].argv
    /\ \A n \in 1..Len(runs) :
          /\ n <= Len(plan.steps)
          /\ runs[n] = plan.steps[n].argv
          /\ Allowlisted(runs[n])
          /\ \A m \in 1..Len(plan.manual) : runs[n] # plan.manual[m][2]

\* apply has run the step of a plan that has three manual steps: a pipeline
\* after an allowlisted prefix, a hint that tells what to run, and an
\* installer without package.
C20_Witness ==
    /\ ins_pc = "applied"
    /\ Len(results) = 3
    /\ Len(plan.manual) = 2
    /\ Len(plan.steps) = 1
    /\ runs = <<plan.steps[1].argv>>
    /\ \E m \in 1..2 : plan.manual[m][2] = <<"sudo", "apt", "install", "rustup", "|", "sh">>

\* apply was called without dry_run and without assume_yes.
MustPrompt == ~apply_args.dry_run /\ ~apply_args.assume_yes

\* The confirm callback was called and returned false.
Declined == asked /\ apply_args.confirm = "no"

\* apply runs a command only without dry_run and with assume_yes or a confirm
\* callback that returned true; with dry_run it runs nothing and returns true.
RunsOnlyWhenAllowed ==
    /\ runs # <<>> =>
          /\ ~apply_args.dry_run
          /\ apply_args.assume_yes \/ (asked /\ apply_args.confirm = "yes")
    /\ apply_args.dry_run => runs = <<>> /\ success /\ ~asked
    /\ asked => plan.steps # <<>> /\ MustPrompt /\ apply_args.confirm # None

\* C21 as stated: apply runs a command only when dry_run is false and
\* assume_yes is true or confirm returned true; with dry_run it runs nothing
\* and returns true; when the prompt is declined, or when apply is to prompt
\* and has no confirm callback, it runs nothing and returns false.
C21_NoCallbackReturnsFalse ==
    ins_pc = "applied" =>
       /\ RunsOnlyWhenAllowed
       /\ (Declined \/ (MustPrompt /\ apply_args.confirm = None)) =>
             runs = <<>> /\ ~success

\* C21, for a plan that has steps: apply runs a command only when dry_run is
\* false and assume_yes is true or confirm returned true; with dry_run it
\* runs nothing and returns true; when the prompt is declined, or when apply
\* is to prompt for a plan that has steps and has no confirm callback, it
\* runs nothing and returns false. A plan without steps never prompts, and
\* apply returns true for it.
C21_RunsOnlyWhenConfirmed ==
    ins_pc = "applied" =>
       /\ RunsOnlyWhenAllowed
       /\ (Declined \/ (plan.steps # <<>> /\ MustPrompt /\ apply_args.confirm = None)) =>
             runs = <<>> /\ ~success
       /\ plan.steps = <<>> => runs = <<>> /\ success /\ ~asked

\* apply asked for confirmation of a plan that has a step, was answered no,
\* ran nothing and returned false.
C21_Witness ==
    /\ ins_pc = "applied"
    /\ plan.steps # <<>>
    /\ MustPrompt
    /\ Declined
    /\ runs = <<>>
    /\ ~success

\* Returncodes the runner may have given for the steps of the plan: those it
\* gave, and 0 for the steps that were not run.
CodesSeen == [i \in 1..Len(plan.steps) |-> IF i <= Len(returns) THEN returns[i] ELSE 0]

\* C30: the commands run are those of the first steps of the plan, in plan
\* order; every one but the last exited with 0, and when the last did not,
\* no later step was run and apply returned false. apply returns true
\* exactly when the plan has no steps, or dry_run is set, or every step was
\* run and exited with 0; the same plan without its manual steps gives the
\* same runs and the same result.
C30_StopsAtFirstFailure ==
    ins_pc = "applied" =>
       /\ Len(runs) <= Len(plan.steps)
       /\ Len(returns) = Len(runs)
       /\ \A n \in 1..Len(runs) :
             /\ runs[n] = plan.steps[n].argv
             /\ n < Len(runs) => returns[n] = 0
             /\ returns[n] # 0 => ~success
       /\ success <=>
             \/ plan.steps = <<>>
             \/ apply_args.dry_run
             \/ /\ Len(runs) = Len(plan.steps)
                /\ \A n \in 1..Len(returns) : returns[n] = 0
       /\ \E r \in {ApplyPlan([plan EXCEPT !.manual = <<>>], apply_args, CodesSeen)} :
             r.runs = runs /\ r.success = success

\* A plan of three steps: the second command exited with 1, the third was not
\* run and apply returned false.
C30_Witness ==
    /\ ins_pc = "applied"
    /\ Len(plan.steps) = 3
    /\ runs = <<plan.steps[1].argv, plan.steps[2].argv>>
    /\ returns = <<0, 1>>
    /\ ~success

\* ------------------------------------------------------- HardwareService

\* Number of calls made on the service.
MaxCalls == 2

\* App(name, path, has_teensy): has_teensy says whether the app directory
\* holds a platformio.ini.
Apps ==
    {[name |-> "core", path |-> <<"midi-studio", "core">>, has_teensy |-> TRUE],
     [name |-> "bitwig", path |-> <<"midi-studio", "plugin-bitwig">>, has_teensy |-> FALSE]}

\* The env argument: none, empty, or the name of a platformio environment.
Envs == {None, "", "dev"}

\* How subprocess.run ends: it raises OSError, it is interrupted from the
\* keyboard, or the child exits with a returncode.
RunOutcomes ==
    {[raised |-> "OSError", returncode |-> 0],
     [raised |-> "KeyboardInterrupt", returncode |-> 0],
     [raised |-> None, returncode |-> 0],
     [raised |-> None, returncode |-> 1]}

\* _oc_cmd: [sys.executable, "-m", "ms.oc_cli.<module>"], then env if it is
\* neither None nor empty.
OcCmd(module, env) ==
    <<"sys.executable", "-m", module>> \o
    (IF env # None /\ env # "" THEN <<env>> ELSE <<>>)

\* The platform the service was constructed with.
IsWindows == TRUE

\* _build_env: PIO is set when the workspace has its own platformio.
BuildEnv(pio_exists, is_windows) ==
    IF ~pio_exists THEN None
    ELSE IF is_windows THEN "platformio/venv/Scripts/pio.exe"
    ELSE "platformio/venv/bin/pio"

\* What a call returned: Ok(None), Err(HardwareError(kind)), the int of
\* monitor, or the exception it let through.
HwOk == [ret |-> "Ok", kind |-> None, code |-> 0]
HwErr(kind) == [ret |-> "Err", kind |-> kind, code |-> 0]
HwInt(code) == [ret |-> "int", kind |-> None, code |-> code]
HwRaised(exc) == [ret |-> "raised", kind |-> exc, code |-> 0]

\* One subprocess.run call.
Spawn(cmd, cwd, pio) == [cmd |-> cmd, cwd |-> cwd, pio |-> pio]

\* Mutation of _run_oc: dry_run is not looked at.
RunOcIgnoringDryRun(module, cwd, action, env, dry, pio, out) ==
    IF out.raised = "OSError"
    THEN [ret |-> HwErr("script_missing"), spawns |-> <<Spawn(OcCmd(module, env), cwd, pio)>>]
    ELSE IF out.raised # None
    THEN [ret |-> HwRaised(out.raised), spawns |-> <<Spawn(OcCmd(module, env), cwd, pio)>>]
    ELSE IF out.returncode = 0
    THEN [ret |-> HwOk, spawns |-> <<Spawn(OcCmd(module, env), cwd, pio)>>]
    ELSE [ret |-> HwErr(IF action = "build" THEN "build_failed" ELSE "upload_failed"),
          spawns |-> <<Spawn(OcCmd(module, env), cwd, pio)>>]

\* _run_oc: what it returns and the subprocesses it spawned.
RunOc(module, cwd, action, env, dry, pio, out) ==
    IF dry THEN [ret |-> HwOk, spawns |-> <<>>]
    ELSE IF out.raised = "OSError"
    THEN [ret |-> HwErr("script_missing"), spawns |-> <<Spawn(OcCmd(module, env), cwd, pio)>>]
    ELSE IF out.raised # None
    THEN [ret |-> HwRaised(out.raised), spawns |-> <<Spawn(OcCmd(module, env), cwd, pio)>>]
    ELSE IF out.returncode = 0
    THEN [ret |-> HwOk, spawns |-> <<Spawn(OcCmd(module, env), cwd, pio)>>]
    ELSE [ret |-> HwErr(IF action = "build" THEN "build_failed" ELSE "upload_failed"),
          spawns |-> <<Spawn(OcCmd(module, env), cwd, pio)>>]

\* HardwareService.build and HardwareService.upload
BuildOrUpload(module, action, app, env, dry, pio, out) ==
    IF ~app.has_teensy THEN [ret |-> HwErr("no_platformio"), spawns |-> <<>>]
    ELSE RunOc(module, app.path, action, env, dry, pio, out)

\* HardwareService.monitor
MonitorApp(app, env, pio, out) ==
    IF ~app.has_teensy THEN [ret |-> HwInt(1), spawns |-> <<>>]
    ELSE [ret |-> IF out.raised = "KeyboardInterrupt" THEN HwInt(0)
                  ELSE IF out.raised # None THEN HwRaised(out.raised)
                  ELSE HwInt(out.returncode),
          spawns |-> <<Spawn(OcCmd("oc_monitor", env), app.path, pio)>>]

\* The call and its return are logged, its subprocesses are added to spawned
\* with the number of the call.
Logged(op, app, env, dry, r) ==
    /\ hw_log' = Append(hw_log, [op |-> op, app |-> app, env |-> env, dry_run |-> dry,
                                 ret |-> r.ret])
    /\ spawned' = spawned \o
                  [i \in 1..Len(r.spawns) |-> [call |-> Len(hw_log) + 1, run |-> r.spawns[i]]]
    /\ UNCHANGED <<syncVars, listVars, statusVars, installVars, porcelainVars, bridgeVars>>

\* svc.build(app, env=..., dry_run=...)
Build ==
    /\ Len(hw_log) < MaxCalls
    /\ \E app \in Apps, env \in Envs, dry, pio_exists \in BOOLEAN,
          out \in RunOutcomes :
          \E r \in {BuildOrUpload("oc_build", "build", app, env, dry,
                                   BuildEnv(pio_exists, IsWindows), out)} :
             Logged("build", app, env, dry, r)

\* svc.upload(app, env=..., dry_run=...)
Upload ==
    /\ Len(hw_log) < MaxCalls
    /\ \E app \in Apps, env \in Envs, dry, pio_exists \in BOOLEAN,
          out \in RunOutcomes :
          \E r \in {BuildOrUpload("oc_upload", "upload", app, env, dry,
                                   BuildEnv(pio_exists, IsWindows), out)} :
             Logged("upload", app, env, dry, r)

\* svc.monitor(app, env=...)
Monitor ==
    /\ Len(hw_log) < MaxCalls
    /\ \E app \in Apps, env \in Envs, pio_exists \in BOOLEAN,
          out \in RunOutcomes :
          \E r \in {MonitorApp(app, env, BuildEnv(pio_exists, IsWindows), out)} :
             Logged("monitor", app, env, FALSE, r)

InitHardware ==
    /\ SyncInit /\ ListIdle /\ StatusIdle /\ InstallIdle /\ PorcelainIdle /\ BridgeIdle
    /\ HardwareIdle

NextHardware == Build \/ Upload \/ Monitor

SpecHardware == InitHardware /\ [][NextHardware]_vars

\* The subprocess.run calls made by the n-th call on the service.
SpawnedBy(n) == SelectSeq(spawned, LAMBDA sp : sp.call = n)

\* C22: a build or an upload with dry_run on an app that has a platformio
\* project returns Ok and spawns no subprocess; a build or an upload on an app
\* without platformio project returns the no_platformio error and spawns no
\* subprocess, with dry_run or without.
C22_DryRunAndNoPlatformioSpawnNothing ==
    \A n \in 1..Len(hw_log) :
        hw_log[n].op \in {"build", "upload"} =>
           /\ (hw_log[n].dry_run /\ hw_log[n].app.has_teensy) =>
                 hw_log[n].ret = HwOk /\ SpawnedBy(n) = <<>>
           /\ ~hw_log[n].app.has_teensy =>
                 hw_log[n].ret = HwErr("no_platformio") /\ SpawnedBy(n) = <<>>

\* A build that spawned oc_build, then a dry-run upload of the same app that
\* spawned nothing.
C22_Witness ==
    /\ Len(hw_log) = 2
    /\ hw_log[1].op = "build" /\ ~hw_log[1].dry_run /\ hw_log[1].ret = HwOk
    /\ hw_log[2].op = "upload" /\ hw_log[2].dry_run /\ hw_log[2].app.has_teensy
    /\ hw_log[2].ret = HwOk
    /\ Len(spawned) = 1
    /\ spawned[1].run.cmd = <<"sys.executable", "-m", "oc_build", "dev">>

\* ------------------------------------------- porcelain status parsing

\* Number of lines git prints.
MaxLines == 3

\* An optional string.
Nothing == [some |-> FALSE, value |-> <<>>]
Some(str) == [some |-> TRUE, value |-> str]

\* Lines of `git status --porcelain=v1 -b`, as sequences of characters, each
\* with what git means by it: a branch header with its local branch, its
\* upstream and its counts, an entry with its XY code and its path, a line
\* cut short, a blank line.
PorcelainLines ==
   {[kind |-> "header", text |-> <<"#", "#", " ", "m", "a", "i", "n", ".", ".", ".", "o", "r", "i", "g", "i", "n", "/", "m", "a", "i", "n", " ", "[", "a", "h", "e", "a", "d", " ", "2", ",", " ", "b", "e", "h", "i", "n", "d", " ", "1", "]">>,
     branch |-> <<"m", "a", "i", "n">>, upstream |-> Some(<<"o", "r", "i", "g", "i", "n", "/", "m", "a", "i", "n">>), ahead |-> 2, behind |-> 1,
     xy |-> <<>>, path |-> <<>>],
    [kind |-> "header", text |-> <<"#", "#", " ", "m", "a", "i", "n">>,
     branch |-> <<"m", "a", "i", "n">>, upstream |-> Nothing, ahead |-> 0, behind |-> 0,
     xy |-> <<>>, path |-> <<>>],
    [kind |-> "header", text |-> <<"#", "#", " ", "d", "e", "v", ".", ".", ".", "o", "r", "i", "g", "i", "n", "/", "d", "e", "v", " ", "[", "b", "e", "h", "i", "n", "d", " ", "1", "2", "]">>,
     branch |-> <<"d", "e", "v">>, upstream |-> Some(<<"o", "r", "i", "g", "i", "n", "/", "d", "e", "v">>), ahead |-> 0, behind |-> 12,
     xy |-> <<>>, path |-> <<>>],
    [kind |-> "header", text |-> <<"#", "#", " ", "m", "a", "i", "n", ".", ".", ".", "o", "r", "i", "g", "i", "n", "/", "m", "a", "i", "n", " ", "[", "g", "o", "n", "e", "]">>,
     branch |-> <<"m", "a", "i", "n">>, upstream |-> Some(<<"o", "r", "i", "g", "i", "n", "/", "m", "a", "i", "n">>), ahead |-> 0, behind |-> 0,
     xy |-> <<>>, path |-> <<>>],
    [kind |-> "header", text |-> <<"#", "#", " ", "H", "E", "A", "D", " ", "(", "n", "o", " ", "b", "r", "a", "n", "c", "h", ")">>,
     branch |-> <<"H", "E", "A", "D", " ", "(", "n", "o", " ", "b", "r", "a", "n", "c", "h", ")">>, upstream |-> Nothing, ahead |-> 0, behind |-> 0,
     xy |-> <<>>, path |-> <<>>],
    [kind |-> "entry", text |-> <<"M", " ", " ", "f", "o", "o", ".", "t", "x", "t">>,
     branch |-> <<>>, upstream |-> Nothing, ahead |-> 0, behind |-> 0,
     xy |-> <<"M", " ">>, path |-> <<"f", "o", "o", ".", "t", "x", "t">>],
    [kind |-> "entry", text |-> <<" ", "M", " ", "a">>,
     branch |-> <<>>, upstream |-> Nothing, ahead |-> 0, behind |-> 0,
     xy |-> <<" ", "M">>, path |-> <<"a">>],
    [kind |-> "entry", text |-> <<"?", "?", " ", "b", "a", "r", ".", "t", "x", "t">>,
     branch |-> <<>>, upstream |-> Nothing, ahead |-> 0, behind |-> 0,
     xy |-> <<"?", "?">>, path |-> <<"b", "a", "r", ".", "t", "x", "t">>],
    [kind |-> "entry", text |-> <<"R", " ", " ", "a", " ", "-", ">", " ", "b">>,
     branch |-> <<>>, upstream |-> Nothing, ahead |-> 0, behind |-> 0,
     xy |-> <<"R", " ">>, path |-> <<"a", " ", "-", ">", " ", "b">>],
    [kind |-> "entry", text |-> <<"?", "?", " ">>,
     branch |-> <<>>, upstream |-> Nothing, ahead |-> 0, behind |-> 0,
     xy |-> <<"?", "?">>, path |-> <<>>],
    [kind |-> "short", text |-> <<"M", " ", "a">>,
     branch |-> <<>>, upstream |-> Nothing, ahead |-> 0, behind |-> 0,
     xy |-> <<>>, path |-> <<>>],
    [kind |-> "short", text |-> <<"?", "?", "x">>,
     branch |-> <<>>, upstream |-> Nothing, ahead |-> 0, behind |-> 0,
     xy |-> <<>>, path |-> <<>>],
    [kind |-> "blank", text |-> <<>>,
     branch |-> <<>>, upstream |-> Nothing, ahead |-> 0, behind |-> 0,
     xy |-> <<>>, path |-> <<>>],
    [kind |-> "blank", text |-> <<" ", " ">>,
     branch |-> <<>>, upstream |-> Nothing, ahead |-> 0, behind |-> 0,
     xy |-> <<>>, path |-> <<>>]}

\* The texts of at most n lines.
RECURSIVE LineLists(_)
LineLists(n) ==
    IF n = 0 THEN {<<>>}
    ELSE LineLists(n - 1) \cup
         {Append(l, ln) : l \in {m \in LineLists(n - 1) : Len(m) = n - 1},
                          ln \in PorcelainLines}

\* What git prints: every line followed by a newline.
RECURSIVE Printed(_)
Printed(lns) ==
    IF lns = <<>> THEN <<>> ELSE Head(lns).text \o <<"\n">> \o Printed(Tail(lns))

Whitespace == {" ", "\t", "\n"}

Digits == <<"0", "1", "2", "3", "4", "5", "6", "7", "8", "9">>

\* The characters of s from the i-th on: s[i-1:] of Python.
From(s, i) == SubSeq(s, i, Len(s))

\* str.lstrip(), str.rstrip() and str.strip()
RECURSIVE LStrip(_)
LStrip(s) == IF s # <<>> /\ Head(s) \in Whitespace THEN LStrip(Tail(s)) ELSE s

RECURSIVE RStrip(_)
RStrip(s) ==
    IF s # <<>> /\ s[Len(s)] \in Whitespace THEN RStrip(SubSeq(s, 1, Len(s) - 1)) ELSE s

StripStr(s) == LStrip(RStrip(s))

\* str.startswith(prefix)
StartsWith(s, prefix) == Len(s) >= Len(prefix) /\ SubSeq(s, 1, Len(prefix)) = prefix

\* The positions at which sub occurs in s.
Occurrences(s, sub) ==
    {i \in 1..(Len(s) - Len(sub) + 1) : SubSeq(s, i, i + Len(sub) - 1) = sub}

Least(S) == CHOOSE i \in S : \A j \in S : i <= j

\* str.splitlines(): the lines without their terminator.
RECURSIVE SplitLines(_)
SplitLines(s) ==
    IF s = <<>> THEN <<>>
    ELSE IF Occurrences(s, <<"\n">>) = {} THEN <<s>>
    ELSE LET i == Least(Occurrences(s, <<"\n">>))
         IN <<SubSeq(s, 1, i - 1)>> \o SplitLines(From(s, i + 1))

\* Mutation of the length test: no line is too short.
TooShortNever(ln) == FALSE

\* len(ln) < 4
TooShort(ln) == Len(ln) < 4

\* The loop of _parse_git_porcelain over lines[1:].
RECURSIVE PorcelainEntries(_)
PorcelainEntries(lns) ==
    IF lns = <<>> THEN <<>>
    ELSE LET ln == Head(lns)
         IN (IF StartsWith(ln, <<"?", "?", " ">>)
             THEN <<[xy |-> <<"?", "?">>, path |-> From(ln, 4)]>>
             ELSE IF TooShort(ln) THEN <<>>
             ELSE <<[xy |-> SubSeq(ln, 1, 2), path |-> From(ln, 4)]>>)
            \o PorcelainEntries(Tail(lns))

\* _parse_git_porcelain: (branch_line, entries)
ParseGitPorcelain(status) ==
    LET lines == SelectSeq(SplitLines(status), LAMBDA ln : StripStr(ln) # <<>>)
    IN IF lines = <<>> THEN [branch |-> <<>>, entries |-> <<>>]
       ELSE [branch |-> lines[1], entries |-> PorcelainEntries(Tail(lines))]

\* s.split(sep, 1)[0] and, when sep occurs, s.split(sep, 1)[1]
Before(s, sep) ==
    IF Occurrences(s, sep) = {} THEN s ELSE SubSeq(s, 1, Least(Occurrences(s, sep)) - 1)

After(s, sep) == From(s, Least(Occurrences(s, sep)) + Len(sep))

\* _parse_branch_line: (local branch, upstream or None)
ParseBranchLine(branch_line) ==
    LET s0 == StripStr(branch_line)
        s1 == IF StartsWith(s0, <<"#", "#">>) THEN LStrip(From(s0, 3)) ELSE s0
        s2 == StripStr(Before(s1, <<" ", "[">>))
    IN IF Occurrences(s2, <<".", ".", ".">>) # {}
       THEN [local |-> StripStr(Before(s2, <<".", ".", ".">>)),
             upstream |-> Some(StripStr(After(s2, <<".", ".", ".">>)))]
       ELSE [local |-> s2, upstream |-> Nothing]

\* The length of the longest prefix of s made of characters of the set.
RECURSIVE Span(_, _)
Span(s, set) == IF s # <<>> /\ Head(s) \in set THEN 1 + Span(Tail(s), set) ELSE 0

DigitSet == {Digits[i] : i \in 1..Len(Digits)}

\* int() of a sequence of digits.
RECURSIVE ToInt(_)
ToInt(ds) ==
    IF ds = <<>> THEN 0
    ELSE 10 * ToInt(SubSeq(ds, 1, Len(ds) - 1)) +
         (CHOOSE v \in 0..9 : Digits[v + 1] = ds[Len(ds)])

\* re.search(word + r"\s+(\d+)", s): the digits of the first match, none
\* when there is no match.
NumberAfter(s, word) ==
    LET hits == {i \in Occurrences(s, word) :
                    LET rest == From(s, i + Len(word))
                        gap == Span(rest, Whitespace)
                    IN gap > 0 /\ Span(From(rest, gap + 1), DigitSet) > 0}
    IN IF hits = {} THEN Nothing
       ELSE LET rest == From(s, Least(hits) + Len(word))
                ds == From(rest, Span(rest, Whitespace) + 1)
            IN Some(SubSeq(ds, 1, Span(ds, DigitSet)))

\* re.search(r"\[([^\]]+)\]", s): what stands between the brackets of the
\* first match, none when there is no match.
Bracketed(s) ==
    LET closes(i) == {j \in (i + 1)..Len(s) : s[j] = "]"}
        hits == {i \in 1..Len(s) :
                    s[i] = "[" /\ closes(i) # {} /\ Least(closes(i)) > i + 1}
    IN IF hits = {} THEN Nothing
       ELSE Some(SubSeq(s, Least(hits) + 1, Least(closes(Least(hits))) - 1))

\* _ahead_behind: (ahead, behind)
AheadBehind(branch_line) ==
    LET m == Bracketed(branch_line)
        ma == NumberAfter(m.value, <<"a", "h", "e", "a", "d">>)
        mb == NumberAfter(m.value, <<"b", "e", "h", "i", "n", "d">>)
    IN IF ~m.some THEN [ahead |-> 0, behind |-> 0]
       ELSE [ahead |-> IF ma.some THEN ToInt(ma.value) ELSE 0,
             behind |-> IF mb.some THEN ToInt(mb.value) ELSE 0]

\* What _print_changes reads out of proc.stdout.
ReadStatus(out) ==
    LET pe == ParseGitPorcelain(out)
        bl == IF pe.branch # <<>> THEN ParseBranchLine(pe.branch)
              ELSE [local |-> <<>>, upstream |-> Nothing]
        ab == AheadBehind(pe.branch)
    IN [done |-> TRUE, branch_line |-> pe.branch, entries |-> pe.entries,
        local_branch |-> bl.local, upstream |-> bl.upstream,
        ahead |-> ab.ahead, behind |-> ab.behind]

PorcelainInit ==
    /\ status_lines \in LineLists(MaxLines)
    /\ stdout = Printed(status_lines)
    /\ parsed = NotParsed

\* branch, entries = _parse_git_porcelain(proc.stdout), then the branch line
\* is taken apart.
ParseStatus ==
    /\ ~parsed.done
    /\ parsed' = ReadStatus(stdout)
    /\ UNCHANGED <<syncVars, listVars, statusVars, installVars, hwVars, bridgeVars,
                   status_lines, stdout>>

InitPorcelain ==
    /\ SyncInit /\ ListIdle /\ StatusIdle /\ InstallIdle /\ HardwareIdle /\ BridgeIdle
    /\ PorcelainInit

NextPorcelain == ParseStatus

SpecPorcelain == InitPorcelain /\ [][NextPorcelain]_vars

\* The lines that are not blank, in the order git printed them.
NonBlank == SelectSeq(status_lines, LAMBDA ln : ln.kind # "blank")

\* The entries of the lines after the first one that is not blank: a line cut
\* short has none.
Later == SelectSeq(Tail(NonBlank), LAMBDA ln : ln.kind # "short")

\* The entry a line stands for. A line that is a branch header or an entry is
\* read as an entry when it is not the first: two characters of code, one
\* character dropped, then the path.
EntryFor(ln) ==
    IF ln.kind = "entry" THEN [xy |-> ln.xy, path |-> ln.path]
    ELSE [xy |-> SubSeq(ln.text, 1, 2), path |-> From(ln.text, 4)]

\* C25: the first line that is not blank is taken as the branch header, and
\* when it is one, its local branch, its upstream after "..." (none without)
\* and the ahead and behind counts of its bracketed suffix (0 when absent)
\* are extracted; every later line that is not blank yields, in input order,
\* an entry of a 2-character code and a path, a line starting with "?? "
\* yields the code "??", and another line shorter than 4 characters is
\* ignored.
C25_PorcelainParsed ==
    parsed.done =>
       IF NonBlank = <<>>
       THEN parsed.branch_line = <<>> /\ parsed.entries = <<>>
       ELSE /\ parsed.branch_line = NonBlank[1].text
            /\ NonBlank[1].kind = "header" =>
                  /\ parsed.local_branch = NonBlank[1].branch
                  /\ parsed.upstream = NonBlank[1].upstream
                  /\ parsed.ahead = NonBlank[1].ahead
                  /\ parsed.behind = NonBlank[1].behind
            /\ parsed.entries = [i \in 1..Len(Later) |-> EntryFor(Later[i])]
            /\ \A i \in 1..Len(parsed.entries) :
                  /\ Len(parsed.entries[i].xy) = 2
                  /\ StartsWith(Later[i].text, <<"?", "?", " ">>) =>
                        parsed.entries[i].xy = <<"?", "?">>

\* `## main...origin/main [ahead 2, behind 1]`, then a line cut short, then
\* `?? bar.txt`: branch main, upstream origin/main, 2 ahead, 1 behind, and the
\* one entry of the untracked file.
C25_Witness ==
    /\ parsed.done
    /\ Len(status_lines) = 3
    /\ status_lines[2].kind = "short"
    /\ parsed.local_branch = <<"m", "a", "i", "n">>
    /\ parsed.upstream = Some(<<"o", "r", "i", "g", "i", "n", "/", "m", "a", "i", "n">>)
    /\ parsed.ahead = 2
    /\ parsed.behind = 1
    /\ parsed.entries = <<[xy |-> <<"?", "?">>, path |-> <<"b", "a", "r", ".", "t", "x", "t">>]>>

\* ---------------------------------------------------------------- Bridge

\* Number of processes a Bridge instance starts.
MaxStarts == 3

\* The BridgeConfigs get_bridge_config builds for the two targets.
BridgeConfigs ==
    {[transport |-> "udp", controller_port |-> 8000, host_port |-> 9001],
     [transport |-> "ws", controller_port |-> 8100, host_port |-> 9002]}

\* The argv of the Popen of start.
BridgeArgv(config) ==
    <<"oc-bridge", "--headless", "--controller", config.transport,
      "--controller-port", config.controller_port, "--udp-port", config.host_port>>

\* A child process: its argv, whether it runs, and whether it exits within
\* the 2 seconds that follow a terminate().
Child(argv, alive, yields) == [argv |-> argv, alive |-> alive, yields |-> yields]

\* Popen.poll() is None
Polls(p) == p.alive

\* terminate(), wait(timeout=2) and, on TimeoutExpired, kill(): the process
\* has exited, or is killed.
Terminated(p) == [p EXCEPT !.alive = FALSE]

Bool(b) == IF b THEN "True" ELSE "False"

\* bridge.start(config): nothing is started when no executable is found;
\* otherwise self._process is replaced by a new Popen, and the method tells
\* whether the child still runs 0.3 seconds later.
Start ==
    /\ Len(procs) < MaxStarts
    /\ \E exe \in BOOLEAN, config \in BridgeConfigs, stays, yields \in BOOLEAN :
          IF ~exe
          THEN /\ stays /\ yields /\ config.transport = "udp"
               /\ br_last' = [op |-> "start", ret |-> "False"]
               /\ UNCHANGED <<procs, process>>
          ELSE /\ procs' = Append(procs, Child(BridgeArgv(config), stays, yields))
               /\ process' = Len(procs) + 1
               /\ br_last' = [op |-> "start", ret |-> Bool(stays)]
    /\ UNCHANGED <<syncVars, listVars, statusVars, installVars, hwVars, porcelainVars>>

\* bridge.stop()
Stop ==
    /\ IF process = 0
       THEN UNCHANGED <<procs, process>>
       ELSE /\ procs' = [procs EXCEPT ![process] = Terminated(@)]
            /\ process' = 0
    /\ br_last' = [op |-> "stop", ret |-> None]
    /\ UNCHANGED <<syncVars, listVars, statusVars, installVars, hwVars, porcelainVars>>

\* What bridge.is_running() returns.
IsRunningReturn == IF process = 0 THEN FALSE ELSE Polls(procs[process])

\* bridge.is_running()
IsRunning ==
    /\ br_last' = [op |-> "is_running", ret |-> Bool(IsRunningReturn)]
    /\ UNCHANGED <<syncVars, listVars, statusVars, installVars, hwVars, porcelainVars,
                   procs, process>>

\* A child exits on its own.
ChildExits ==
    /\ \E i \in 1..Len(procs) :
          /\ procs[i].alive
          /\ procs' = [procs EXCEPT ![i].alive = FALSE]
    /\ UNCHANGED <<syncVars, listVars, statusVars, installVars, hwVars, porcelainVars,
                   process, br_last>>

InitBridge ==
    /\ SyncInit /\ ListIdle /\ StatusIdle /\ InstallIdle /\ HardwareIdle /\ PorcelainIdle
    /\ BridgeIdle

NextBridge == Start \/ Stop \/ IsRunning \/ ChildExits

SpecBridge == InitBridge /\ [][NextBridge]_vars

\* stop() has just returned: is_running() returns false and a further stop()
\* changes nothing.
StoppedForGood ==
    /\ process = 0
    /\ ~IsRunningReturn

\* C29 as stated: when stop() has returned, no process the instance spawned
\* is still running, is_running() returns false and a further stop() is a
\* no-op; a start() issued while a previous process runs leaves no process
\* alive and untracked.
C29_NoChildAfterStop ==
    /\ br_last.op = "stop" =>
          /\ \A i \in 1..Len(procs) : ~procs[i].alive
          /\ StoppedForGood
    /\ \A i \in 1..Len(procs) : procs[i].alive => process = i

\* C29, what the Bridge does: when stop() has returned, the process the
\* instance held, which is the last it started, is not running, is_running()
\* returns false and a further stop() is a no-op; the instance holds the
\* last process it started or none, so a process started before the last
\* one may still run, which no stop() reaches.
C29_LastChildStopped ==
    /\ br_last.op = "stop" =>
          /\ procs # <<>> => ~procs[Len(procs)].alive
          /\ StoppedForGood
    /\ process \in {0, Len(procs)}

\* start(), start(), stop(): the second process is stopped, the first one
\* still runs and the instance holds no process.
C29_Witness ==
    /\ br_last.op = "stop"
    /\ Len(procs) = 2
    /\ procs[1].alive
    /\ ~procs[2].alive
    /\ process = 0

====
